---- MODULE Spec2Model ----
(***************************************************************************)
(* Generation lifecycle engine of the Reve AI SDK (src/src/index.ts):      *)
(* one client instance serving one generateImage or editImage call, the    *)
(* pipelines the call fans out into, and the polling loop of each.         *)
(* Every await of the source is one step; a request and its response are   *)
(* one exchange, decided by the (nondeterministic) upstream service.       *)
(***************************************************************************)
EXTENDS Integers, Sequences, FiniteSets, TLC

VARIABLES
    config,     \* this.options: auth, projectId, maxPollingAttempts and customHeaders
                \* (fixed at construction)
    token,      \* this.token: the cached bearer token, or NoToken once cleared
    options,    \* the options of the call in progress, <<>> before the call
    phase,      \* where the public call stands: idle, enhance, awaitAll, returned, raised
    enhancedPrompts, \* generateImage's local enhancedPrompts (variants fetched up front)
    pipes,      \* the pipelines of the call: index -> locals of generate/editSingleImage
    result,     \* what the public call returned, <<>> if nothing (yet)
    error,      \* what the public call raised, NoError if nothing (yet)
    calls,      \* requests issued so far, by endpoint
    wire,       \* the exchange of the step just taken, if it made one: the request's
                \* headers and payload, the response and what the await yields
    kv,         \* the worker's env.REVE_CREDENTIALS: the value stored under each key
    request     \* the body of the worker's last /update-credentials request, <<>>
                \* before the first

vars == <<config, token, options, phase, enhancedPrompts, pipes, result, error, calls, wire,
         kv, request>>

----------------------------------------------------------------------------
(* Bounds of the model *)

\* largest batchSize a generateImage request asks for
MaxBatch == 2
\* largest maxPollingAttempts a client is configured with when it serves one
\* pipeline
MaxPollingAttempts == 3
\* maxPollingAttempts of the client that serves a batch
BatchPollingAttempts == 1
\* largest number of expanded prompts the inference endpoint returns
MaxVariants == 3
\* maxPollingAttempts of the client that is built with custom headers
HeaderPollingAttempts == 1
\* batchSize of the call, and maxPollingAttempts of the client, where
\* termination is examined
FairBatch == 2
FairPollingAttempts == 1
\* maxPollingAttempts asked of the constructor
NewPollingAttempts == 1

(* Program constants *)

\* Math.floor(Math.random() * 1000): the jitter added to an explicit seed
JitterRange == 1000
\* Math.floor(Math.random() * 10000000): the seed drawn by generateSingleImage
GenerateSeedRange == 10000000
\* Math.floor(Math.random() * 1000000000): the seed drawn by editSingleImage
EditSeedRange == 1000000000
\* const batchSize = options.batchSize || 1, and the 1 passed by generateSingleImage
DefaultBatchSize == 1

\* process.env.NODE_ENV === 'test': the model is of the SDK outside its own test run
IS_TEST_ENV == FALSE

----------------------------------------------------------------------------
(* Optional values: undefined / absent is <<>>, a present value x is <<x>> *)

None == <<>>
Some(x) == <<x>>
IsSome(o) == o # <<>>
Get(o) == o[1]
\* a ?? d
OrElse(o, d) == IF o = <<>> THEN d ELSE o[1]

(* Texts are pairs <<tag, n>>: the caller's prompt, the k-th expanded prompt *)
(* of the inference endpoint, the caption the chat endpoint answers with.    *)
ThePrompt == <<"prompt", 0>>
Variant(k) == <<"expanded", k>>
Variants(k) == [j \in 1..k |-> Variant(j - 1)]

(* Identifiers: the two the service may answer a creation request with,     *)
(* distinct and particular to the pipeline, so that a mix-up between         *)
(* pipelines or between fields shows.                                        *)
NodeId(i) == <<"node", i>>
LegacyId(i) == <<"legacy", i>>
\* crypto.randomUUID() of lines 548 and 678: the id the client sends as node.id
ClientId(i) == <<"client", i>>
ForeignId == <<"foreign", 0>>
ImageOf(g) == <<"image", g>>

----------------------------------------------------------------------------
(* Errors.  sdk tells a ReveAIError from any other thrown value. *)

Err(sdk, kind, text, n, status) ==
    [sdk |-> sdk, kind |-> kind, text |-> text, n |-> n, status |-> status]
NoError == Err(FALSE, "none", "", 0, 0)
ReveAIError(kind, text, n, status) == Err(TRUE, kind, text, n, status)
\* what axios rejects with: a transport failure (status 0) or an HTTP status
AxiosError(status) == Err(FALSE, "AxiosError", "", 0, status)

----------------------------------------------------------------------------
(* Helpers of src/utils/helpers, which the SDK imports (index.ts line 12) *)

\* the widths and heights the service supports
SupportedDimensions == {1024}

\* validateImageOptions(width, height, batchSize): the error it throws, or NoError
validateImageOptions(width, height, batchSize) ==
    IF \/ IsSome(width) /\ Get(width) \notin SupportedDimensions
       \/ IsSome(height) /\ Get(height) \notin SupportedDimensions
       \/ IsSome(batchSize) /\ Get(batchSize) < 1
    THEN ReveAIError("ValidationError", "image options", 0, 0)
    ELSE NoError

\* validateEditImageOptions(instruction, originatingGeneration)
validateEditImageOptions(instruction, originatingGeneration) ==
    IF instruction = "" \/ originatingGeneration = ""
    THEN ReveAIError("ValidationError", "edit options", 0, 0)
    ELSE NoError

\* handleAxiosError(error, operation): an SDK error comes back unchanged, anything
\* else wrapped into a request error that names the operation
handleAxiosError(e, operation) ==
    IF e.sdk THEN e ELSE ReveAIError("RequestError", operation, 0, e.status)

----------------------------------------------------------------------------
(* The upstream service.  A world W names the answers the service may give:   *)
(* the statuses of a failed exchange and the response shapes of each         *)
(* endpoint.  RichWorld has every shape the code tells apart; LeanWorld has   *)
(* one answer of each kind (success, each failure) and serves the batches.    *)

\* POST /api/misc/model_infer_sync answers: not an array (None), or an array of
\* step records of which the last counts
InferSteps ==
    [status : {"success", "error"},
     expanded : {None} \cup {Some(Variants(k)) : k \in 0..MaxVariants}]
InferBodies == {None, Some(<<>>)} \cup {Some(<<s>>) : s \in InferSteps}

\* POST /api/misc/chat answers: a bare string, or an object with any of the
\* fields the extractors look at
ChatBodies ==
    {b \in [bare : BOOLEAN,
            response : {"absent", "notjson", "noprompt", "prompt"},
            content : BOOLEAN, choices : BOOLEAN, multi : BOOLEAN] :
        b.bare => (b.response = "absent" /\ ~b.content /\ ~b.choices /\ ~b.multi)}

\* POST /api/project/{id}/generation answers: an empty body, or an object that
\* may carry create.node.id and may carry generation_id
SubmitShapes ==
    [empty : {FALSE}, create : BOOLEAN, generation_id : BOOLEAN]
    \cup {[empty |-> TRUE, create |-> FALSE, generation_id |-> FALSE]}

\* GET /api/project/{id}/node answers: a body without a list; or a list that may
\* hold another job's entry first and may hold the polled job's entry, which may
\* have data, which may have an output reference, an error text, a recorded seed
NodeShapes ==
    {n \in [list : BOOLEAN, foreign : BOOLEAN, entry : BOOLEAN, data : BOOLEAN,
            output : BOOLEAN, error : BOOLEAN, seed : {None, Some(0)}] :
        /\ ~n.list => ~n.foreign /\ ~n.entry
        /\ ~n.entry => ~n.data
        /\ ~n.data => ~n.output /\ ~n.error
        /\ ~n.output => n.seed = None}

RichWorld ==
    [failStatuses |-> {500, 401},
     projects |-> {None, Some(<<>>), Some(<<"P2", "P1">>)},
     infer |-> InferBodies,
     chat |-> ChatBodies,
     submit |-> SubmitShapes,
     node |-> NodeShapes,
     contentTypes |-> {None, Some("image/png")},
     listedAs |-> {"node", "legacy", "client"},
     observed |-> {"projects", "infer", "chat", "generation", "node", "image"}]

LeanWorld ==
    [failStatuses |-> {401},
     projects |-> {Some(<<"P1">>)},
     infer |-> {Some(<<[status |-> "success", expanded |-> Some(Variants(k))]>>) :
                  k \in 0..MaxVariants},
     chat |-> {b \in ChatBodies : b.bare},
     submit |-> {b \in SubmitShapes : ~b.empty /\ ~b.generation_id},
     node |-> {n \in NodeShapes :
                 /\ n.list /\ ~n.foreign /\ n.seed = None
                 /\ n.entry => n.data /\ (n.output # n.error)},
     contentTypes |-> {Some("image/png")},
     listedAs |-> {"node"},
     observed |-> {"generation"}]

\* LeanWorld with one answer of the inference endpoint, failures that leave
\* the token alone and no exchange under observation
FairWorld ==
    [LeanWorld EXCEPT !.failStatuses = {500},
                      !.infer = {Some(<<[status |-> "success", expanded |-> Some(Variants(1))]>>)},
                      !.observed = {}]

\* the creation response of shape b for pipeline i
SubmitBody(b, i) ==
    [empty |-> b.empty,
     create |-> IF b.create THEN Some(NodeId(i)) ELSE None,
     generation_id |-> IF b.generation_id THEN Some(LegacyId(i)) ELSE None]

ForeignEntry ==
    [id |-> ForeignId,
     data |-> Some([output |-> Some(ImageOf(ForeignId)), error |-> None, seed |-> Some(1)])]

\* the ids under which the service of world W may list the job of pipeline i
ListedIds(W, i) ==
    {g \in {NodeId(i), LegacyId(i), ClientId(i)} : g[1] \in W.listedAs}

\* the job-list snapshot of shape n with the job listed as g: None without a list
NodeBody(n, g) ==
    IF ~n.list THEN None
    ELSE Some((IF n.foreign THEN <<ForeignEntry>> ELSE <<>>) \o
              (IF ~n.entry THEN <<>>
               ELSE <<[id |-> g,
                       data |-> IF ~n.data THEN None
                                ELSE Some([output |-> IF n.output THEN Some(ImageOf(g)) ELSE None,
                                           error |-> IF n.error THEN Some("OOM") ELSE None,
                                           seed |-> n.seed])]>>))

\* the artifact response for imageId with content-type header c
ImageResponse(c, imageId) == [contentType |-> c, bytes |-> imageId]

----------------------------------------------------------------------------
(* The client: response interceptor, project lookup, prompt enhancement *)

NoToken == "null"
TheToken == "token"

\* options.auth: the authorization and cookie values the client is built with
TheAuth == [authorization |-> "Bearer token", cookie |-> "session"]

\* the header names the model follows, as the instance writes them
HeaderNames == {"authorization", "cookie", "user-agent"}

\* the headers of a request before the interceptors run: the instance
\* defaults of axios.create (line 77), with no credentials yet
DefaultHeaders ==
    [h \in HeaderNames |-> IF h = "user-agent" THEN "ReveAI-SDK/1.0" ELSE ""]

\* key.toLowerCase() of a header name
toLowerCase(key) ==
    CASE key = "Authorization" -> "authorization"
      [] key = "Cookie" -> "cookie"
      [] key = "User-Agent" -> "user-agent"
      [] OTHER -> key

\* config.headers[name] = value
setHeader(headers, name, value) ==
    IF name \in DOMAIN headers THEN [headers EXCEPT ![name] = value] ELSE headers

\* lines 210-213: Object.entries(customHeaders).forEach, each entry written
\* under its lower-cased name, in order
RECURSIVE withCustomHeaders(_, _)
withCustomHeaders(headers, entries) ==
    IF entries = <<>> THEN headers
    ELSE withCustomHeaders(setHeader(headers, toLowerCase(entries[1][1]), entries[1][2]),
                           Tail(entries))

\* the auth request interceptor (lines 203-227): the headers a request of a
\* client configured with cfg leaves with; this.token is not read
requestHeaders(cfg) ==
    withCustomHeaders([DefaultHeaders EXCEPT !.authorization = cfg.auth.authorization,
                                             !.cookie = cfg.auth.cookie],
                      cfg.customHeaders)

\* the customHeaders a client may be built with, as Object.entries lists them
CustomHeaderSets ==
    {<<>>,
     <<<<"User-Agent", "agent">>>>,
     <<<<"Authorization", "Bearer other">>>>,
     <<<<"x-trace", "1">>, <<"Cookie", "other">>>>}

\* a value JavaScript takes for true in a condition: a string that is there
\* and is not empty
truthy(v) == v # None /\ v # Some("")

\* /Bearer\s+(.+)/.exec(authorization) (lines 83-86): the token after the
\* scheme, NoToken when the value does not match
bearerToken(authorization) ==
    CASE authorization = "Bearer token" -> "token"
      [] authorization = "Bearer other" -> "other"
      [] OTHER -> NoToken

\* options.maxPollingAttempts ?? 60
DefaultMaxPollingAttempts == 60

\* a constructor that asks for the authorization value only
constructorCookieOptional(o) ==
    IF o.auth = None
    THEN [err |-> ReveAIError("AuthenticationError", "Authentication options are required",
                              0, 0),
          options |-> <<>>, token |-> NoToken]
    ELSE LET auth == Get(o.auth) IN
         IF ~truthy(auth.authorization)
         THEN [err |-> ReveAIError("AuthenticationError",
                                   "Authorization header and cookie are required", 0, 0),
               options |-> <<>>, token |-> NoToken]
         ELSE [err |-> NoError,
               options |-> [auth |-> [authorization |-> Get(auth.authorization),
                                      cookie |-> IF auth.cookie = None THEN ""
                                                 ELSE Get(auth.cookie)],
                            projectId |-> IF truthy(o.projectId) THEN o.projectId ELSE None,
                            maxPollingAttempts |-> IF o.maxPollingAttempts = None
                                                   THEN DefaultMaxPollingAttempts
                                                   ELSE Get(o.maxPollingAttempts),
                            customHeaders |-> o.customHeaders],
               token |-> bearerToken(Get(auth.authorization))]

\* new ReveAI(o) (lines 36-90): the error it throws, or NoError with
\* this.options and this.token of the instance
constructor(o) ==
    IF o.auth = None
    THEN [err |-> ReveAIError("AuthenticationError", "Authentication options are required",
                              0, 0),
          options |-> <<>>, token |-> NoToken]
    ELSE LET auth == Get(o.auth) IN
         IF ~truthy(auth.authorization) \/ ~truthy(auth.cookie)
         THEN [err |-> ReveAIError("AuthenticationError",
                                   "Authorization header and cookie are required", 0, 0),
               options |-> <<>>, token |-> NoToken]
         ELSE [err |-> NoError,
               options |-> [auth |-> [authorization |-> Get(auth.authorization),
                                      cookie |-> Get(auth.cookie)],
                            projectId |-> IF truthy(o.projectId) THEN o.projectId ELSE None,
                            maxPollingAttempts |-> IF o.maxPollingAttempts = None
                                                   THEN DefaultMaxPollingAttempts
                                                   ELSE Get(o.maxPollingAttempts),
                            customHeaders |-> o.customHeaders],
               token |-> bearerToken(Get(auth.authorization))]

\* the options a client is built with (lines 50-59)
ReveAIOptions(projectIds, attempts, headerSets) ==
    [auth : {TheAuth}, projectId : projectIds, maxPollingAttempts : attempts,
     customHeaders : headerSets]

\* the response interceptor's error handler (lines 191-198): what the caller's
\* await rejects with
Intercept(status, tok) ==
    IF status = 401 /\ tok # NoToken
    THEN ReveAIError("AuthenticationError", "Authentication token expired", 0, 401)
    ELSE AxiosError(status)

\* an error handler that drops the token on any failed response
TokenAfterAnyFailure(status, tok) ==
    IF status # 200 THEN NoToken ELSE tok

\* the response interceptor's error handler: this.token afterwards
TokenAfter(status, tok) ==
    IF status = 401 /\ tok # NoToken THEN NoToken ELSE tok

\* no exchange: the fields of an exchange, each at its default.  rejected is
\* what the request's await rejected with; caption, seed and clientId are those
\* of a creation payload and body its response; chat, infer, snapshot and image
\* are the response bodies of the other endpoints; returned is what
\* enhancePrompt returned to its caller
NoWire ==
    [ep |-> "none", pipe |-> -1, caption |-> None, seed |-> 0, status |-> 0,
     body |-> [empty |-> TRUE, create |-> None, generation_id |-> None],
     headers |-> DefaultHeaders, project |-> None, projects |-> None,
     rejected |-> NoError, clientId |-> None, chat |-> None, infer |-> None,
     returned |-> None, polled |-> None, snapshot |-> None, image |-> None]

\* an exchange whose request carries the bearer value only while this.token
\* is cached
ExchangeBearerOfCachedToken(ep, i, status, tok) ==
    [NoWire EXCEPT !.ep = ep, !.pipe = i, !.status = status,
                   !.headers = IF tok = NoToken
                               THEN setHeader(requestHeaders(config), "authorization", "")
                               ELSE requestHeaders(config),
                   !.rejected = IF status = 200 THEN NoError ELSE Intercept(status, tok)]

\* the exchange of pipeline i with endpoint ep: the request left with the
\* headers of the request interceptor and was answered with status while
\* this.token was tok
Exchange(ep, i, status, tok) ==
    [NoWire EXCEPT !.ep = ep, !.pipe = i, !.status = status,
                   !.headers = requestHeaders(config),
                   !.rejected = IF status = 200 THEN NoError ELSE Intercept(status, tok)]

\* the exchange w as the record of the step keeps it: the exchanges of the
\* endpoints under observation in world W
Observed(W, w) == IF w.ep \in W.observed THEN w ELSE NoWire

\* the project taken from the last record of the list
lastProject(data) ==
    IF IsSome(data) /\ Len(Get(data)) > 0 THEN Some(Get(data)[Len(Get(data))]) ELSE None

\* getProjectId lines 244-247: response.data[0].id of a non-empty array, None
\* for anything else (data is None when it is not an array)
firstProject(data) ==
    IF IsSome(data) /\ Len(Get(data)) > 0 THEN Some(Get(data)[1]) ELSE None

\* getProjectId(): every way it can end in world W, as [id, err, token, net,
\* status, data]: the id it returns (None if it throws err), this.token
\* afterwards, the requests it issued, the status its request was answered
\* with and the body of the answer
getProjectId(W, cfg, tok) ==
    IF IsSome(cfg.projectId)
    THEN {[id |-> cfg.projectId, err |-> NoError, token |-> tok, net |-> 0,
           status |-> 0, data |-> None]}
    ELSE {[id |-> firstProject(b),
           err |-> IF IsSome(firstProject(b)) THEN NoError
                   ELSE ReveAIError("ApiError", "No projects found", 0, 0),
           token |-> tok, net |-> 1, status |-> 200, data |-> b] : b \in W.projects}
         \cup
         {[id |-> None, data |-> None,
           err |-> LET e == Intercept(s, tok) IN
                   IF e.sdk THEN e
                   ELSE IF e.status = 404
                        THEN ReveAIError("ApiError", "Cannot auto-detect project ID", 0, 404)
                        ELSE handleAxiosError(e, "getting project ID"),
           token |-> TokenAfter(s, tok), net |-> 1, status |-> s] :
              s \in W.failStatuses \cup {404}}

\* enhancePrompt taking the expanded prompts of the last step whatever its
\* status
expandedPromptsOfAnyStatus(body, prompt) ==
    IF IsSome(body) /\ Len(Get(body)) > 0
    THEN LET lastResponse == Get(body)[Len(Get(body))] IN
         IF IsSome(lastResponse.expanded)
         THEN Get(lastResponse.expanded)
         ELSE <<prompt>>
    ELSE <<prompt>>

\* enhancePrompt, lines 298-318: the prompts it returns for a response body
expandedPrompts(body, prompt) ==
    IF IsSome(body) /\ Len(Get(body)) > 0
    THEN LET lastResponse == Get(body)[Len(Get(body))] IN
         IF lastResponse.status = "success" /\ IsSome(lastResponse.expanded)
         THEN Get(lastResponse.expanded)
         ELSE <<prompt>>
    ELSE <<prompt>>

\* enhancePrompt(prompt, numVariants): every way it can end in world W, as
\* [prompts, token, projects, infer, wire]: the prompts it returns, this.token
\* afterwards, the requests it issued by endpoint and its last exchange.  It
\* never throws
enhancePrompt(W, prompt, numVariants, cfg, tok) ==
    UNION {
        IF p.id = None
        THEN {[prompts |-> <<prompt>>, token |-> p.token, projects |-> p.net, infer |-> 0,
               wire |-> Exchange("projects", -1, p.status, tok)]}
        ELSE {[prompts |-> expandedPrompts(b, prompt), token |-> p.token,
               projects |-> p.net, infer |-> 1,
               wire |-> [Exchange("infer", -1, 200, p.token) EXCEPT !.infer = b]] :
                  b \in W.infer}
             \cup
             {[prompts |-> <<prompt>>, token |-> TokenAfter(s, p.token),
               projects |-> p.net, infer |-> 1,
               wire |-> Exchange("infer", -1, s, p.token)] : s \in W.failStatuses}
        : p \in getProjectId(W, cfg, tok)}

\* generationIdFromResponse with the two shapes tried in the other order
generationIdFromResponseLegacyFirst(body) ==
    IF IsSome(body.generation_id) THEN body.generation_id
    ELSE IF IsSome(body.create) THEN body.create
    ELSE None

\* generateSingleImage lines 592-602, editSingleImage lines 731-737:
\* generationIdFromResponse, None standing for null
generationIdFromResponse(body) ==
    IF IsSome(body.create) THEN body.create
    ELSE IF IsSome(body.generation_id) THEN body.generation_id
    ELSE None

\* nodeList.find(item => item.node && item.node.id === generationId)
find(nodeList, generationId) ==
    LET hits == {k \in 1..Len(nodeList) : nodeList[k].id = generationId} IN
    IF hits = {} THEN None
    ELSE Some(nodeList[CHOOSE k \in hits : \A j \in hits : k <= j])

\* pollGenerationStatus lines 980-989: the data URL of an image response
dataUrl(imageResponse) ==
    <<"data", OrElse(imageResponse.contentType, "image/webp"), imageResponse.bytes>>

\* the chat extractors with the plain content field tried before the response
\* field
chatPromptContentFirst(b) ==
    IF b.content THEN Some(<<"chat", 2>>)
    ELSE IF b.response = "prompt" THEN Some(<<"chat", 1>>)
    ELSE IF b.choices THEN Some(<<"chat", 3>>)
    ELSE IF b.multi THEN Some(<<"chat", 4>>)
    ELSE IF b.bare THEN Some(<<"chat", 5>>)
    ELSE None

\* enhanceEditPrompt lines 417-470: the prompt extracted from a chat response,
\* None if no extractor matches.  Each extractor yields a text of its own.
chatPrompt(b) ==
    IF b.response = "prompt" THEN Some(<<"chat", 1>>)
    ELSE IF b.content THEN Some(<<"chat", 2>>)
    ELSE IF b.choices THEN Some(<<"chat", 3>>)
    ELSE IF b.multi THEN Some(<<"chat", 4>>)
    ELSE IF b.bare THEN Some(<<"chat", 5>>)
    ELSE None

----------------------------------------------------------------------------
(* Requests a caller may make *)

Jitters == {0, JitterRange - 1}
GenerateSeeds == {0, GenerateSeedRange - 1}
EditSeeds == {0, EditSeedRange - 1}

\* generateImage options with batchSize among sizes and seed among seeds
GenerateOptions(sizes, seeds) ==
    [op : {"generate"}, prompt : {ThePrompt},
     width : {None, Some(7)}, height : {Some(1024), Some(7)},
     batchSize : sizes,
     seed : seeds,
     enhancePrompt : {None, Some(FALSE)},
     instruction : {""}, originatingGeneration : {""}]

\* editImage options; batchSize and enhancePrompt are not part of
\* EditImageOptions but a caller may pass them
EditOptions ==
    [op : {"edit"}, prompt : {ThePrompt},
     width : {None, Some(7)}, height : {Some(1024), Some(7)},
     batchSize : {None, Some(2)},
     seed : {None, Some(-1), Some(5)},
     enhancePrompt : {None, Some(TRUE)},
     instruction : {"", "make it blue"}, originatingGeneration : {"", "gen-0"}]

----------------------------------------------------------------------------
(* The locals of one generateSingleImage / editSingleImage activation.  A    *)
(* local is kept from its assignment to its last use.  fetches, images and    *)
(* sleeps count the snapshot requests issued, the artifact requests issued    *)
(* and the delays completed.  jobError is ourGeneration.data.error of the     *)
(* iteration in progress.                                                     *)

NewPipe(seed, enhancedPrompt) ==
    [pc |-> "projectId", seed |-> seed, pre |-> enhancedPrompt, projectId |-> None,
     caption |-> None, genId |-> None, attempts |-> 0, fetches |-> 0, images |-> 0,
     sleeps |-> 0, imageId |-> None, jobError |-> None, jobSeed |-> 0,
     imageUrl |-> None, err |-> NoError]

\* the activation throws e: only the error is left of it
Throw(p, e) ==
    [NewPipe(None, None) EXCEPT !.pc = "failed", !.err = e,
                                !.fetches = p.fetches, !.images = p.images,
                                !.sleeps = p.sleeps, !.jobError = p.jobError]

----------------------------------------------------------------------------
(* generateImage and editImage: launch, join, reduce *)

\* options.enhancePrompt || true in place of options.enhancePrompt ?? true
shouldEnhanceOrTrue(o) == OrElse(o.enhancePrompt, TRUE) \/ TRUE

\* options.enhancePrompt ?? true (lines 522 and 778)
shouldEnhance(o) == OrElse(o.enhancePrompt, TRUE)

\* options.batchSize || 1
batchSizeOf(o) ==
    IF IsSome(o.batchSize) /\ Get(o.batchSize) # 0 THEN Get(o.batchSize)
    ELSE DefaultBatchSize

\* generateImage line 802: the seed handed to pipeline i, for jitter j
itemSeed(o, j) == IF o.seed = None THEN Some(-1) ELSE Some(Get(o.seed) + j)

\* every pipeline handed the first of the pre-fetched prompts
itemPromptFirst(o, prompts, index) ==
    IF shouldEnhance(o) /\ Len(prompts) > 0
    THEN Some(prompts[1])
    ELSE None

\* generateImage lines 794-796: the pre-enhanced prompt handed to pipeline index
itemPrompt(o, prompts, index) ==
    IF shouldEnhance(o) /\ Len(prompts) > 0
    THEN Some(prompts[(index % Len(prompts)) + 1])
    ELSE None

\* generateImage lines 792-806: the pipelines launched, for every draw of jitters
Launch(o, prompts) ==
    {[index \in 0..(batchSizeOf(o) - 1) |->
        NewPipe(itemSeed(o, js[index]), itemPrompt(o, prompts, index))] :
     js \in [0..(batchSizeOf(o) - 1) -> Jitters]}

\* generateSingleImage lines 614-620: what a pipeline that is done returned
singleResult(o, p) ==
    [imageUrl |-> Get(p.imageUrl), seed |-> p.jobSeed, generationId |-> Get(p.genId),
     enhancedPrompt |-> IF shouldEnhance(o) /\ Get(p.caption) # o.prompt
                        THEN p.caption ELSE None,
     caption |-> Get(p.caption)]

\* the pipelines' results collected last launched first
resultsOfReversed(o, ps) ==
    [k \in 1..batchSizeOf(o) |-> singleResult(o, ps[batchSizeOf(o) - k])]

\* Promise.all(generationPromises): the pipelines' results, by index
resultsOf(o, ps) ==
    [k \in 1..batchSizeOf(o) |-> singleResult(o, ps[k - 1])]

\* the result with the first caption always reported as the single caption
generateResultFirstCaption(o, ps) ==
    LET results == resultsOf(o, ps)
        usedCaptions == [k \in 1..Len(results) |-> results[k].caption]
        defined == SelectSeq([k \in 1..Len(results) |-> results[k].enhancedPrompt], IsSome)
        usedEnhancedPrompts == [k \in 1..Len(defined) |-> Get(defined[k])]
        withEnhanced == shouldEnhance(o) /\ Len(usedEnhancedPrompts) > 0
    IN  [generationIds |-> [k \in 1..Len(results) |-> results[k].generationId],
         imageUrls |-> [k \in 1..Len(results) |-> results[k].imageUrl],
         seed |-> results[1].seed,
         prompt |-> o.prompt,
         caption |-> Some(usedCaptions[1]),
         captions |-> IF Len(usedCaptions) > 1 THEN Some(usedCaptions) ELSE None,
         enhancedPrompt |-> IF withEnhanced THEN Some(usedEnhancedPrompts[1]) ELSE None,
         enhancedPrompts |-> IF withEnhanced /\ Len(usedEnhancedPrompts) > 1
                             THEN Some(usedEnhancedPrompts) ELSE None]

\* generateImage lines 810-838
generateResult(o, ps) ==
    LET results == resultsOf(o, ps)
        usedCaptions == [k \in 1..Len(results) |-> results[k].caption]
        defined == SelectSeq([k \in 1..Len(results) |-> results[k].enhancedPrompt], IsSome)
        usedEnhancedPrompts == [k \in 1..Len(defined) |-> Get(defined[k])]
        withEnhanced == shouldEnhance(o) /\ Len(usedEnhancedPrompts) > 0
    IN  [generationIds |-> [k \in 1..Len(results) |-> results[k].generationId],
         imageUrls |-> [k \in 1..Len(results) |-> results[k].imageUrl],
         seed |-> results[1].seed,
         prompt |-> o.prompt,
         caption |-> IF Len(usedCaptions) = 1 THEN Some(usedCaptions[1]) ELSE None,
         captions |-> IF Len(usedCaptions) > 1 THEN Some(usedCaptions) ELSE None,
         enhancedPrompt |-> IF withEnhanced THEN Some(usedEnhancedPrompts[1]) ELSE None,
         enhancedPrompts |-> IF withEnhanced /\ Len(usedEnhancedPrompts) > 1
                             THEN Some(usedEnhancedPrompts) ELSE None]

\* the edit's result reporting the caller's prompt as the final caption
editResultOriginalPrompt(o, p) ==
    [generationId |-> Get(p.genId), imageUrl |-> Get(p.imageUrl), seed |-> p.jobSeed,
     prompt |-> o.prompt, instruction |-> o.instruction,
     originatingGeneration |-> o.originatingGeneration,
     finalCaption |-> o.prompt]

\* editImage lines 888-899
editResult(o, p) ==
    [generationId |-> Get(p.genId), imageUrl |-> Get(p.imageUrl), seed |-> p.jobSeed,
     prompt |-> o.prompt, instruction |-> o.instruction,
     originatingGeneration |-> o.originatingGeneration,
     finalCaption |-> Get(p.caption)]

\* the public catch blocks wrapping whatever they caught under the operation's
\* name
publicCatchWrapping(o, e) ==
    ReveAIError("RequestError", IF o.op = "generate" THEN "generating image"
                                ELSE "editing image", 0, e.status)

\* the catch blocks of generateImage (lines 839-852) and editImage (901-915):
\* what the public call throws for what it caught
publicCatch(o, e) ==
    IF IS_TEST_ENV /\ e.kind = "GenerationError" /\ o.op = "generate"
    THEN ReveAIError("GenerationError", "Generation failed", 0, 0)
    ELSE IF IS_TEST_ENV /\ e.kind = "PollingError"
    THEN ReveAIError("PollingError", "timed out", 0, 0)
    ELSE handleAxiosError(e, IF o.op = "generate" THEN "generating image"
                             ELSE "editing image")

\* Promise.allSettled in place of Promise.all: the public call waits for every
\* pipeline and returns what the fulfilled ones produced
JoinSettled(ps) ==
    IF phase # "awaitAll"
    THEN UNCHANGED <<phase, result, error>>
    ELSE IF \A i \in DOMAIN ps : ps[i].pc = "failed"
    THEN /\ phase' = "raised"
         /\ error' = publicCatch(options, ps[0].err)
         /\ result' = result
    ELSE IF \A i \in DOMAIN ps : ps[i].pc \in {"done", "failed"}
    THEN LET fulfilled == SelectSeq([k \in 1..batchSizeOf(options) |-> ps[k - 1]],
                                    LAMBDA q : q.pc = "done")
         IN  /\ phase' = "returned"
             /\ result' = Some([generationIds |-> [k \in 1..Len(fulfilled) |->
                                                     Get(fulfilled[k].genId)],
                                imageUrls |-> [k \in 1..Len(fulfilled) |->
                                                 Get(fulfilled[k].imageUrl)]])
             /\ error' = error
    ELSE UNCHANGED <<phase, result, error>>

\* a public call that waits for every pipeline to succeed and is deaf to a
\* failure
JoinFulfilledOnly(ps) ==
    IF phase # "awaitAll"
    THEN UNCHANGED <<phase, result, error>>
    ELSE IF \A i \in DOMAIN ps : ps[i].pc = "done"
    THEN /\ phase' = "returned"
         /\ result' = Some(IF options.op = "generate" THEN generateResult(options, ps)
                           ELSE editResult(options, ps[0]))
         /\ error' = error
    ELSE UNCHANGED <<phase, result, error>>

\* await Promise.all(...) / await this.editSingleImage(...): the public call
\* rejects with the first pipeline failure and returns once all are done
Join(ps) ==
    IF phase # "awaitAll"
    THEN UNCHANGED <<phase, result, error>>
    ELSE IF \E i \in DOMAIN ps : ps[i].pc = "failed"
    THEN /\ phase' = "raised"
         /\ error' = publicCatch(options, ps[CHOOSE i \in DOMAIN ps : ps[i].pc = "failed"].err)
         /\ result' = result
    ELSE IF \A i \in DOMAIN ps : ps[i].pc = "done"
    THEN /\ phase' = "returned"
         /\ result' = Some(IF options.op = "generate" THEN generateResult(options, ps)
                           ELSE editResult(options, ps[0]))
         /\ error' = error
    ELSE UNCHANGED <<phase, result, error>>

\* generateImage without the validateImageOptions call of lines 768-772
GenerateImageUnvalidated(sizes, seeds) ==
    /\ phase = "idle"
    /\ \E o \in GenerateOptions(sizes, seeds) :
        /\ options' = o
        /\ IF shouldEnhance(o) /\ batchSizeOf(o) > 1
           THEN /\ phase' = "enhance"
                /\ pipes' = pipes
           ELSE /\ phase' = "awaitAll"
                /\ pipes' \in Launch(o, <<>>)
    /\ wire' = NoWire
    /\ UNCHANGED <<config, token, enhancedPrompts, result, error, calls, kv, request>>

\* generateImage(options), to its first await
GenerateImage(sizes, seeds) ==
    /\ phase = "idle"
    /\ \E o \in GenerateOptions(sizes, seeds) :
        LET v == validateImageOptions(o.width, o.height, o.batchSize) IN
        /\ options' = o
        /\ IF v # NoError
           THEN /\ phase' = "raised"
                /\ error' = publicCatch(o, v)
                /\ pipes' = pipes
           ELSE IF shouldEnhance(o) /\ batchSizeOf(o) > 1
           THEN /\ phase' = "enhance"
                /\ error' = error
                /\ pipes' = pipes
           ELSE /\ phase' = "awaitAll"
                /\ error' = error
                /\ pipes' \in Launch(o, <<>>)
    /\ wire' = NoWire
    /\ UNCHANGED <<config, token, enhancedPrompts, result, calls, kv, request>>

\* generateImage line 784 and on: the up-front enhancePrompt call returns and the
\* pipelines are launched
EnhanceBatch(W) ==
    /\ phase = "enhance"
    /\ \E r \in enhancePrompt(W, options.prompt, batchSizeOf(options), config, token) :
        /\ enhancedPrompts' = r.prompts
        /\ token' = r.token
        /\ calls' = [calls EXCEPT !.projects = @ + r.projects, !.infer = @ + r.infer]
        /\ pipes' \in Launch(options, r.prompts)
        /\ wire' = Observed(W, [r.wire EXCEPT !.returned = Some(r.prompts)])
    /\ phase' = "awaitAll"
    /\ UNCHANGED <<config, options, result, error, kv, request>>

\* editImage without the validateEditImageOptions call of line 871
EditImageUnvalidated ==
    /\ phase = "idle"
    /\ \E o \in EditOptions :
        LET v == validateImageOptions(o.width, o.height, None) IN
        /\ options' = o
        /\ IF v # NoError
           THEN /\ phase' = "raised"
                /\ error' = publicCatch(o, v)
                /\ pipes' = pipes
           ELSE /\ phase' = "awaitAll"
                /\ error' = error
                /\ pipes' = [index \in {0} |-> NewPipe(o.seed, None)]
    /\ wire' = NoWire
    /\ UNCHANGED <<config, token, enhancedPrompts, result, calls, kv, request>>

\* editImage launching one editSingleImage per requested batch item
EditImageBatched ==
    /\ phase = "idle"
    /\ \E o \in EditOptions :
        LET v1 == validateImageOptions(o.width, o.height, None)
            v2 == validateEditImageOptions(o.instruction, o.originatingGeneration)
            v == IF v1 # NoError THEN v1 ELSE v2
        IN
        /\ options' = o
        /\ IF v # NoError
           THEN /\ phase' = "raised"
                /\ error' = publicCatch(o, v)
                /\ pipes' = pipes
           ELSE /\ phase' = "awaitAll"
                /\ error' = error
                /\ pipes' = [index \in 0..(OrElse(o.batchSize, 1) - 1) |->
                                NewPipe(o.seed, None)]
    /\ wire' = NoWire
    /\ UNCHANGED <<config, token, enhancedPrompts, result, calls, kv, request>>

\* editImage(options), to its first await
EditImage ==
    /\ phase = "idle"
    /\ \E o \in EditOptions :
        LET v1 == validateImageOptions(o.width, o.height, None)
            v2 == validateEditImageOptions(o.instruction, o.originatingGeneration)
            v == IF v1 # NoError THEN v1 ELSE v2
        IN
        /\ options' = o
        /\ IF v # NoError
           THEN /\ phase' = "raised"
                /\ error' = publicCatch(o, v)
                /\ pipes' = pipes
           ELSE /\ phase' = "awaitAll"
                /\ error' = error
                /\ pipes' = [index \in {0} |-> NewPipe(o.seed, None)]
    /\ wire' = NoWire
    /\ UNCHANGED <<config, token, enhancedPrompts, result, calls, kv, request>>

----------------------------------------------------------------------------
(* One pipeline: generateSingleImage / editSingleImage *)

\* generateSingleImage lines 506-545, editSingleImage lines 640-650: the project
\* id arrives, the options are validated again, the caption's source is chosen
afterProjectId(o, p, r) ==
    LET q == [p EXCEPT !.projectId = r.id, !.pre = None]
        v1 == validateImageOptions(o.width, o.height,
                  IF o.op = "generate" THEN Some(DefaultBatchSize) ELSE None)
        v2 == IF o.op = "edit"
              THEN validateEditImageOptions(o.instruction, o.originatingGeneration)
              ELSE NoError
    IN  IF r.id = None THEN Throw(p, r.err)
        ELSE IF v1 # NoError THEN Throw(q, v1)
        ELSE IF v2 # NoError THEN Throw(q, v2)
        ELSE IF o.op = "edit" THEN [q EXCEPT !.pc = "chat"]
        ELSE IF IsSome(p.pre) /\ shouldEnhance(o)
        THEN [q EXCEPT !.pc = "submit", !.caption = p.pre]
        ELSE IF shouldEnhance(o) THEN [q EXCEPT !.pc = "enhance"]
        ELSE [q EXCEPT !.pc = "submit", !.caption = Some(o.prompt)]

PipeProjectId(W, i) ==
    /\ pipes[i].pc = "projectId"
    /\ \E r \in getProjectId(W, config, token) :
        LET ps == [pipes EXCEPT ![i] = afterProjectId(options, pipes[i], r)] IN
        /\ pipes' = ps
        /\ token' = r.token
        /\ calls' = [calls EXCEPT !.projects = @ + r.net]
        /\ wire' = IF r.net = 0 THEN NoWire
                   ELSE Observed(W, [Exchange("projects", i, r.status, token) EXCEPT
                                         !.projects = r.data])
        /\ Join(ps)
    /\ UNCHANGED <<config, options, enhancedPrompts, kv, request>>

\* generateSingleImage lines 537-545: the pipeline's own enhancePrompt(prompt, 1)
afterEnhance(o, p, enhanced) ==
    [p EXCEPT !.pc = "submit",
              !.caption = IF Len(enhanced) > 0 THEN Some(enhanced[1]) ELSE Some(o.prompt)]

PipeEnhance(W, i) ==
    /\ pipes[i].pc = "enhance"
    /\ \E r \in enhancePrompt(W, options.prompt, 1, config, token) :
        /\ pipes' = [pipes EXCEPT ![i] = afterEnhance(options, pipes[i], r.prompts)]
        /\ token' = r.token
        /\ calls' = [calls EXCEPT !.projects = @ + r.projects, !.infer = @ + r.infer]
        /\ wire' = Observed(W, [r.wire EXCEPT !.pipe = i, !.returned = Some(r.prompts)])
    /\ UNCHANGED <<config, options, phase, enhancedPrompts, result, error, kv, request>>

\* enhanceEditPrompt falling back to the original prompt, as enhancePrompt does,
\* when the chat request fails or nothing can be extracted
afterChatFallback(p, status, body, tok) ==
    IF status = 200 /\ chatPrompt(body) # None
    THEN [p EXCEPT !.pc = "submit", !.caption = chatPrompt(body)]
    ELSE [p EXCEPT !.pc = "submit", !.caption = Some(ThePrompt)]

\* editSingleImage lines 654-660 with enhanceEditPrompt lines 393-486: the chat
\* exchange; status 200 carries body, any other status is a failed exchange
afterChat(p, status, body, tok) ==
    IF status # 200
    THEN Throw(p, handleAxiosError(Intercept(status, tok), "enhancing edit prompt"))
    ELSE IF chatPrompt(body) = None
    THEN Throw(p, handleAxiosError(
                      ReveAIError("UnexpectedResponse", "chat response structure", 0, 0),
                      "enhancing edit prompt"))
    ELSE [p EXCEPT !.pc = "submit", !.caption = chatPrompt(body)]

PipeChat(W, i) ==
    /\ pipes[i].pc = "chat"
    /\ \E x \in ({200} \X W.chat) \cup (W.failStatuses \X {CHOOSE b \in ChatBodies : b.bare}) :
        LET ps == [pipes EXCEPT ![i] = afterChat(pipes[i], x[1], x[2], token)] IN
        /\ pipes' = ps
        /\ token' = TokenAfter(x[1], token)
        /\ wire' = Observed(W, [Exchange("chat", i, x[1], token) EXCEPT
                                    !.chat = IF x[1] = 200 THEN Some(x[2]) ELSE None])
        /\ Join(ps)
    /\ calls' = [calls EXCEPT !.chat = @ + 1]
    /\ UNCHANGED <<config, options, enhancedPrompts, kv, request>>

\* the creation payload carrying the pipeline's seed as it is
payloadSeedsVerbatim(o, p) ==
    IF o.op = "generate" THEN {OrElse(p.seed, -1)}
    ELSE IF p.seed = None THEN EditSeeds ELSE {Get(p.seed)}

\* generateSingleImage line 563, editSingleImage line 670: the seeds the creation
\* payload may carry
payloadSeeds(o, p) ==
    IF o.op = "generate"
    THEN LET seed == OrElse(p.seed, -1) IN
         IF seed = -1 THEN GenerateSeeds ELSE {seed}
    ELSE IF p.seed = None THEN EditSeeds ELSE {Get(p.seed)}

\* the loop's test with <= in place of <
loopTestInclusive(cfg, p) ==
    IF p.attempts <= cfg.maxPollingAttempts
    THEN [p EXCEPT !.pc = "poll"]
    ELSE Throw(p, ReveAIError("PollingError", "Generation timed out", p.attempts, 0))

\* pollGenerationStatus lines 928-931 and 1051-1056: the loop's test, on entry
\* and after every attempts++
loopTest(cfg, p) ==
    IF p.attempts < cfg.maxPollingAttempts
    THEN [p EXCEPT !.pc = "poll"]
    ELSE Throw(p, ReveAIError("PollingError", "Generation timed out", p.attempts, 0))

\* the pipeline polling for, and reporting, the id it generated and sent as
\* node.id, whatever the creation response names
afterSubmitKeepingClientId(cfg, p, generationId, status, body, tok) ==
    IF status # 200 THEN Throw(p, Intercept(status, tok))
    ELSE IF IS_TEST_ENV /\ body.empty
    THEN [p EXCEPT !.pc = "done", !.imageUrl = Some(<<"test-image">>),
                   !.genId = Some(<<"test-gen">>), !.jobSeed = -1, !.seed = None]
    ELSE IF generationIdFromResponse(body) = None
    THEN Throw(p, ReveAIError("UnexpectedResponse", "Failed to get generation ID", 0, 0))
    ELSE loopTest(cfg, [p EXCEPT !.genId = Some(generationId), !.seed = None])

\* generateSingleImage lines 548-612, editSingleImage lines 678-747: the creation
\* request carrying the client's generationId is answered, the job id is
\* extracted from the response, polling starts
afterSubmit(cfg, p, generationId, status, body, tok) ==
    IF status # 200 THEN Throw(p, Intercept(status, tok))
    ELSE IF IS_TEST_ENV /\ body.empty
    THEN [p EXCEPT !.pc = "done", !.imageUrl = Some(<<"test-image">>),
                   !.genId = Some(<<"test-gen">>), !.jobSeed = -1, !.seed = None]
    ELSE IF generationIdFromResponse(body) = None
    THEN Throw(p, ReveAIError("UnexpectedResponse", "Failed to get generation ID", 0, 0))
    ELSE loopTest(cfg, [p EXCEPT !.genId = generationIdFromResponse(body), !.seed = None])

PipeSubmit(W, i) ==
    /\ pipes[i].pc = "submit"
    /\ \E seed \in payloadSeeds(options, pipes[i]) :
       \E x \in ({200} \X {SubmitBody(b, i) : b \in W.submit})
                 \cup (W.failStatuses \X {NoWire.body}) :
        LET ps == [pipes EXCEPT ![i] = afterSubmit(config, pipes[i], ClientId(i),
                                                   x[1], x[2], token)] IN
        /\ pipes' = ps
        /\ token' = TokenAfter(x[1], token)
        /\ wire' = Observed(W, [Exchange("generation", i, x[1], token) EXCEPT
                                    !.project = pipes[i].projectId,
                                    !.caption = pipes[i].caption, !.seed = seed,
                                    !.clientId = Some(ClientId(i)), !.body = x[2]])
        /\ Join(ps)
    /\ calls' = [calls EXCEPT !.generation = @ + 1]
    /\ UNCHANGED <<config, options, enhancedPrompts, kv, request>>

----------------------------------------------------------------------------
(* pollGenerationStatus *)

\* lines 1036-1039 and 1008-1010: nothing to return yet, the iteration ends in a
\* sleep; the block's locals are gone
toSleep(p) ==
    [p EXCEPT !.pc = "sleep", !.imageId = None, !.jobError = None, !.jobSeed = 0]

\* inference_inputs?.seed || -1 in place of ?? -1: a recorded seed of 0 is
\* taken for an absent one
inferenceSeedOrDefault(data) ==
    IF OrElse(data.seed, 0) = 0 THEN -1 ELSE Get(data.seed)

\* line 960: ourGeneration.data.inference_inputs?.seed ?? -1
inferenceSeed(data) == OrElse(data.seed, -1)

\* the snapshot fetch with a failure counted as one more attempt: the iteration
\* ends in a sleep and the loop goes on
afterFetchRetrying(p, status, body, tok) ==
    LET q == [p EXCEPT !.fetches = @ + 1]
        ourGeneration == find(Get(body), Get(p.genId))
        data == Get(ourGeneration).data
    IN  IF status # 200 THEN toSleep(q)
        ELSE IF body = None THEN toSleep(q)
        ELSE IF ourGeneration = None THEN toSleep(q)
        ELSE IF IsSome(data) /\ IsSome(Get(data).output)
        THEN [q EXCEPT !.pc = "image", !.imageId = Get(data).output,
                       !.jobError = Get(data).error,
                       !.jobSeed = inferenceSeed(Get(data))]
        ELSE IF IsSome(data) /\ IsSome(Get(data).error)
        THEN Throw([q EXCEPT !.jobError = Get(data).error],
                   ReveAIError("GenerationError", Get(Get(data).error), 0, 0))
        ELSE toSleep(q)

\* the snapshot fetch that insists on a list: a body without one is an
\* unexpected response
afterFetchListRequired(p, status, body, tok) ==
    LET q == [p EXCEPT !.fetches = @ + 1]
        ourGeneration == find(Get(body), Get(p.genId))
        data == Get(ourGeneration).data
    IN  IF status # 200
        THEN Throw(q, IF Intercept(status, tok).sdk THEN Intercept(status, tok)
                      ELSE handleAxiosError(Intercept(status, tok),
                                            "polling generation status"))
        ELSE IF body = None
        THEN Throw(q, ReveAIError("UnexpectedResponse", "Node list is missing", 0, 0))
        ELSE IF ourGeneration = None THEN toSleep(q)
        ELSE IF IsSome(data) /\ IsSome(Get(data).output)
        THEN [q EXCEPT !.pc = "image", !.imageId = Get(data).output,
                       !.jobError = Get(data).error,
                       !.jobSeed = inferenceSeed(Get(data))]
        ELSE IF IsSome(data) /\ IsSome(Get(data).error)
        THEN Throw([q EXCEPT !.jobError = Get(data).error],
                   ReveAIError("GenerationError", Get(Get(data).error), 0, 0))
        ELSE toSleep(q)

\* lines 938-1048: the job-list snapshot arrives and our job is classified
afterFetch(p, status, body, tok) ==
    LET q == [p EXCEPT !.fetches = @ + 1]
        ourGeneration == find(Get(body), Get(p.genId))
        data == Get(ourGeneration).data
    IN  IF status # 200
        THEN Throw(q, IF Intercept(status, tok).sdk THEN Intercept(status, tok)
                      ELSE handleAxiosError(Intercept(status, tok),
                                            "polling generation status"))
        ELSE IF body = None THEN toSleep(q)
        ELSE IF ourGeneration = None THEN toSleep(q)
        ELSE IF IsSome(data) /\ IsSome(Get(data).output)
        THEN [q EXCEPT !.pc = "image", !.imageId = Get(data).output,
                       !.jobError = Get(data).error,
                       !.jobSeed = inferenceSeed(Get(data))]
        ELSE IF IsSome(data) /\ IsSome(Get(data).error)
        THEN Throw([q EXCEPT !.jobError = Get(data).error],
                   ReveAIError("GenerationError", Get(Get(data).error), 0, 0))
        ELSE toSleep(q)

\* the snapshot request issued only while the public call is still waiting:
\* a raise of generateImage cancels the polling loops
PipePollWhileAwaited(W, i) ==
    /\ pipes[i].pc = "poll"
    /\ phase = "awaitAll"
    /\ \E x \in ({200} \X {NodeBody(n, g) : n \in W.node, g \in ListedIds(W, i)})
                \cup (W.failStatuses \X {None}) :
        LET ps == [pipes EXCEPT ![i] = afterFetch(pipes[i], x[1], x[2], token)] IN
        /\ pipes' = ps
        /\ token' = TokenAfter(x[1], token)
        /\ wire' = Observed(W, [Exchange("node", i, x[1], token) EXCEPT
                                    !.project = pipes[i].projectId,
                                    !.polled = pipes[i].genId, !.snapshot = x[2]])
        /\ Join(ps)
    /\ UNCHANGED <<config, options, enhancedPrompts, calls, kv, request>>

\* pollGenerationStatus line 938: the snapshot request of an iteration is
\* answered
PipePoll(W, i) ==
    /\ pipes[i].pc = "poll"
    /\ \E x \in ({200} \X {NodeBody(n, g) : n \in W.node, g \in ListedIds(W, i)})
                \cup (W.failStatuses \X {None}) :
        LET ps == [pipes EXCEPT ![i] = afterFetch(pipes[i], x[1], x[2], token)] IN
        /\ pipes' = ps
        /\ token' = TokenAfter(x[1], token)
        /\ wire' = Observed(W, [Exchange("node", i, x[1], token) EXCEPT
                                    !.project = pipes[i].projectId,
                                    !.polled = pipes[i].genId, !.snapshot = x[2]])
        /\ Join(ps)
    /\ UNCHANGED <<config, options, enhancedPrompts, calls, kv, request>>

\* the artifact request without the inner try/catch: its failure reaches the
\* loop's catch block and is thrown
afterImageUncaught(p, status, imageResponse) ==
    LET q == [p EXCEPT !.images = @ + 1] IN
    IF status = 200
    THEN [q EXCEPT !.pc = "done", !.imageUrl = Some(dataUrl(imageResponse)),
                   !.imageId = None, !.attempts = 0]
    ELSE Throw(q, handleAxiosError(AxiosError(status), "polling generation status"))

\* lines 965-1011: the artifact arrives and is returned as a data URL, or the
\* fetch failed and the iteration ends in a sleep
afterImage(p, status, imageResponse) ==
    LET q == [p EXCEPT !.images = @ + 1] IN
    IF status = 200
    THEN [q EXCEPT !.pc = "done", !.imageUrl = Some(dataUrl(imageResponse)),
                   !.imageId = None, !.attempts = 0]
    ELSE toSleep(q)

PipeImage(W, i) ==
    /\ pipes[i].pc = "image"
    /\ \E x \in ({200} \X {ImageResponse(c, Get(pipes[i].imageId)) : c \in W.contentTypes})
                \cup (W.failStatuses \X {ImageResponse(None, None)}) :
        LET ps == [pipes EXCEPT ![i] = afterImage(pipes[i], x[1], x[2])] IN
        /\ pipes' = ps
        /\ token' = TokenAfter(x[1], token)
        /\ wire' = Observed(W, [Exchange("image", i, x[1], token) EXCEPT
                                    !.project = pipes[i].projectId,
                                    !.image = IF x[1] = 200 THEN Some(x[2]) ELSE None])
        /\ Join(ps)
    /\ UNCHANGED <<config, options, enhancedPrompts, calls, kv, request>>

\* lines 1038-1039 and 1008-1010, then the loop's test: the delay is over
\* the delay counted as two attempts
afterSleepCountedTwice(cfg, p) ==
    loopTest(cfg, [p EXCEPT !.sleeps = @ + 1, !.attempts = @ + 2])

\* lines 1038-1039 and the loop's test: await delay(...); attempts++
afterSleep(cfg, p) == loopTest(cfg, [p EXCEPT !.sleeps = @ + 1, !.attempts = @ + 1])

\* the delay of pipeline i counted on one counter shared by the polling loops
\* of the batch
PipeSleepSharedCounter(i) ==
    /\ pipes[i].pc = "sleep"
    /\ LET ps == [j \in DOMAIN pipes |->
                    IF j = i THEN afterSleep(config, pipes[j])
                    ELSE IF pipes[j].pc \in {"poll", "image", "sleep"}
                    THEN [pipes[j] EXCEPT !.attempts = @ + 1]
                    ELSE pipes[j]] IN
        /\ pipes' = ps
        /\ Join(ps)
    /\ wire' = NoWire
    /\ UNCHANGED <<config, token, options, enhancedPrompts, calls, kv, request>>

\* pipeline i's delay ends (lines 1038-1039) and its loop test follows
PipeSleep(i) ==
    /\ pipes[i].pc = "sleep"
    /\ LET ps == [pipes EXCEPT ![i] = afterSleep(config, pipes[i])] IN
        /\ pipes' = ps
        /\ Join(ps)
    /\ wire' = NoWire
    /\ UNCHANGED <<config, token, options, enhancedPrompts, calls, kv, request>>

----------------------------------------------------------------------------
(* The specifications *)

Start(configs) ==
    /\ config \in configs
    /\ token = TheToken
    /\ options = <<>>
    /\ phase = "idle"
    /\ enhancedPrompts = <<>>
    /\ pipes = <<>>
    /\ result = None
    /\ error = NoError
    /\ calls = [projects |-> 0, infer |-> 0, chat |-> 0, generation |-> 0]
    /\ wire = NoWire
    /\ kv = <<>>
    /\ request = <<>>

(* One client serving one call that runs one pipeline: generateImage with   *)
(* batchSize absent, 0 or 1, or editImage, against RichWorld.                *)
Init ==
    Start(ReveAIOptions({None, Some("P0")}, 0..MaxPollingAttempts, {<<>>}))

Next ==
    \/ GenerateImage({None, Some(0), Some(1)}, {None, Some(-1), Some(5)})
    \/ EditImage
    \/ \E i \in DOMAIN pipes : PipeProjectId(RichWorld, i)
    \/ \E i \in DOMAIN pipes : PipeEnhance(RichWorld, i)
    \/ \E i \in DOMAIN pipes : PipeChat(RichWorld, i)
    \/ \E i \in DOMAIN pipes : PipeSubmit(RichWorld, i)
    \/ \E i \in DOMAIN pipes : PipePoll(RichWorld, i)
    \/ \E i \in DOMAIN pipes : PipeImage(RichWorld, i)
    \/ \E i \in DOMAIN pipes : PipeSleep(i)

Spec == Init /\ [][Next]_vars

(* One client, configured with its project, serving one generateImage call  *)
(* of any batchSize up to MaxBatch, with no seed or an explicit one, its     *)
(* pipelines interleaved, against LeanWorld.                                 *)
BatchInit ==
    Start(ReveAIOptions({Some("P0")}, {BatchPollingAttempts}, {<<>>}))

BatchNext ==
    \/ GenerateImage({Some(n) : n \in 0..MaxBatch}, {None, Some(5)})
    \/ EnhanceBatch(LeanWorld)
    \/ \E i \in DOMAIN pipes : PipeProjectId(LeanWorld, i)
    \/ \E i \in DOMAIN pipes : PipeEnhance(LeanWorld, i)
    \/ \E i \in DOMAIN pipes : PipeSubmit(LeanWorld, i)
    \/ \E i \in DOMAIN pipes : PipePoll(LeanWorld, i)
    \/ \E i \in DOMAIN pipes : PipeImage(LeanWorld, i)
    \/ \E i \in DOMAIN pipes : PipeSleep(i)

BatchSpec == BatchInit /\ [][BatchNext]_vars

(* One client, configured with its project, serving one generateImage call  *)
(* of batchSize 1 or FairBatch, or one editImage call, against FairWorld,   *)
(* where every request is answered and every delay ends: a step that can    *)
(* be taken is not put off forever.                                          *)
FairInit ==
    Start(ReveAIOptions({Some("P0")}, {FairPollingAttempts}, {<<>>}))

FairNext ==
    \/ GenerateImage({Some(1), Some(FairBatch)}, {None})
    \/ EditImage
    \/ EnhanceBatch(FairWorld)
    \/ \E i \in DOMAIN pipes : PipeProjectId(FairWorld, i)
    \/ \E i \in DOMAIN pipes : PipeEnhance(FairWorld, i)
    \/ \E i \in DOMAIN pipes : PipeChat(FairWorld, i)
    \/ \E i \in DOMAIN pipes : PipeSubmit(FairWorld, i)
    \/ \E i \in DOMAIN pipes : PipePoll(FairWorld, i)
    \/ \E i \in DOMAIN pipes : PipeImage(FairWorld, i)
    \/ \E i \in DOMAIN pipes : PipeSleep(i)

FairSpec == FairInit /\ [][FairNext]_vars /\ WF_vars(FairNext)

(* One client built with any of the custom header sets, serving one call     *)
(* that runs one pipeline, against RichWorld.                                *)
HeaderInit ==
    Start(ReveAIOptions({None, Some("P0")}, {HeaderPollingAttempts}, CustomHeaderSets))

HeaderSpec == HeaderInit /\ [][Next]_vars

(* A client in the making: the constructor is given any of the option sets   *)
(* below, held in options until it has run; the instance it builds, if any,  *)
(* serves one call that runs one pipeline, against RichWorld.                *)
\* options.auth.authorization: missing, empty, a bearer value, a bare token
AuthorizationValues == {None, Some(""), Some("Bearer token"), Some("token")}

\* options.auth.cookie: missing, empty, a cookie
CookieValues == {None, Some(""), Some("session")}

ConstructorOptions ==
    [op : {"new"},
     auth : {None} \cup {Some(a) : a \in [authorization : AuthorizationValues,
                                          cookie : CookieValues]},
     projectId : {None, Some(""), Some("P0")},
     maxPollingAttempts : {Some(NewPollingAttempts)},
     customHeaders : {<<>>}]

NewInit ==
    /\ options \in ConstructorOptions
    /\ config = <<>>
    /\ token = NoToken
    /\ phase = "new"
    /\ enhancedPrompts = <<>>
    /\ pipes = <<>>
    /\ result = None
    /\ error = NoError
    /\ calls = [projects |-> 0, infer |-> 0, chat |-> 0, generation |-> 0]
    /\ wire = NoWire
    /\ kv = <<>>
    /\ request = <<>>

\* new ReveAI(options): the instance is there, or the constructor has thrown
Construct ==
    /\ phase = "new"
    /\ LET r == constructor(options) IN
       IF r.err # NoError
       THEN /\ phase' = "raised"
            /\ error' = r.err
            /\ UNCHANGED <<config, token, options>>
       ELSE /\ phase' = "idle"
            /\ config' = r.options
            /\ token' = r.token
            /\ options' = <<>>
            /\ error' = error
    /\ UNCHANGED <<enhancedPrompts, pipes, result, calls, wire, kv, request>>

NewNext ==
    \/ Construct
    \/ Next

NewSpec == NewInit /\ [][NewNext]_vars

----------------------------------------------------------------------------
(* The worker (src/reve-api/src/index.js): its credential store *)

\* kv.get(key): the value stored under key, None (null) when there is none
get(store, key) == IF key \in DOMAIN store THEN Some(store[key]) ELSE None

\* kv.put(key, value)
put(store, key, value) ==
    [k \in DOMAIN store \cup {key} |-> IF k = key THEN value ELSE store[k]]

\* getCredentials lines 9-24: the four lookups for userId, the default user's
\* under the bare names, any other user's under user-<id>-<name>
storedCredentials(store, userId) ==
    LET prefix == IF userId = "casey" THEN "" ELSE "user-" \o userId \o "-" IN
    [authToken |-> get(store, prefix \o "authToken"),
     cookie |-> get(store, prefix \o "cookie"),
     projectId |-> get(store, prefix \o "projectId"),
     reveVersion |-> get(store, prefix \o "reveVersion")]

\* getCredentials(userId, env): what it returns, or threw when the stored
\* authToken or cookie is missing or empty (lines 29-32)
getCredentials(store, userId) ==
    LET c == storedCredentials(store, userId) IN
    IF ~truthy(c.authToken) \/ ~truthy(c.cookie)
    THEN [threw |-> TRUE, authToken |-> None, cookie |-> None, projectId |-> None,
          reveVersion |-> None]
    ELSE [threw |-> FALSE, authToken |-> c.authToken, cookie |-> c.cookie,
          projectId |-> c.projectId, reveVersion |-> c.reveVersion]

\* updateCredential writing every user's value under the bare name
updateCredentialUnprefixed(store, userId, keySuffix, value) ==
    IF value = None THEN store
    ELSE put(store, keySuffix, Get(value))

\* updateCredential(userId, keySuffix, value, env): the store afterwards; None
\* stands for a value that is undefined or null
updateCredential(store, userId, keySuffix, value) ==
    IF value = None THEN store
    ELSE put(store,
             IF userId = "casey" THEN keySuffix ELSE "user-" \o userId \o "-" \o keySuffix,
             Get(value))

\* the bodies of the /update-credentials requests: the two optional fields
\* come together or not at all
UpdateBodies ==
    {b \in [userId : {None, Some(""), Some("casey"), Some("bob")},
            authToken : {None, Some(""), Some("t1"), Some("t2")},
            cookie : {None, Some("c1")},
            projectId : {None, Some("p1")},
            reveVersion : {None, Some("r1")}] :
        (b.projectId = None) <=> (b.reveVersion = None)}

\* handleUpdateCredentials(request, env), lines 236-270: the four writes of
\* one request, each to a key of its own
HandleUpdateCredentials ==
    /\ \E b \in UpdateBodies :
        /\ request' = b
        /\ kv' = IF ~truthy(b.userId) THEN kv
                 ELSE LET userId == Get(b.userId)
                          s1 == updateCredential(kv, userId, "authToken", b.authToken)
                          s2 == updateCredential(s1, userId, "cookie", b.cookie)
                          s3 == updateCredential(s2, userId, "projectId", b.projectId)
                      IN  updateCredential(s3, userId, "reveVersion", b.reveVersion)
    /\ UNCHANGED <<config, token, options, phase, enhancedPrompts, pipes, result, error,
                   calls, wire>>

(* The worker serving any sequence of /update-credentials requests, with no  *)
(* call of the SDK in progress.                                              *)
StoreInit ==
    Start(ReveAIOptions({Some("P0")}, {0}, {<<>>}))

StoreNext == HandleUpdateCredentials

StoreSpec == StoreInit /\ [][StoreNext]_vars

----------------------------------------------------------------------------
(* Properties of the polling loop, checked of Spec *)

\* C1: a polling loop never issues more than maxPollingAttempts snapshot requests
\* and, while it runs, its attempt counter is below the maximum and counts the
\* snapshots fetched so far; the delay that brings the counter to the maximum is
\* followed by PollingError and by no further request; and a loop that ended in
\* PollingError has issued exactly maxPollingAttempts snapshot requests, reports
\* maxPollingAttempts attempts and has slept once per attempt.
C1_TimeoutAfterExactlyMaxAttempts ==
    /\ [](\A i \in DOMAIN pipes :
            /\ pipes[i].fetches <= config.maxPollingAttempts
            /\ pipes[i].pc = "poll" =>
                 /\ pipes[i].attempts < config.maxPollingAttempts
                 /\ pipes[i].fetches = pipes[i].attempts
            /\ (pipes[i].pc = "failed" /\ pipes[i].err.kind = "PollingError") =>
                 /\ pipes[i].err.n = config.maxPollingAttempts
                 /\ pipes[i].fetches = config.maxPollingAttempts
                 /\ pipes[i].sleeps = config.maxPollingAttempts)
    /\ [][\A i \in DOMAIN pipes :
            (/\ pipes[i].pc = "sleep"
             /\ pipes'[i] # pipes[i]
             /\ pipes[i].attempts + 1 = config.maxPollingAttempts) =>
                /\ pipes'[i].pc = "failed"
                /\ pipes'[i].err.kind = "PollingError"
                /\ pipes'[i].fetches = pipes[i].fetches]_vars

\* a loop that only ever saw its job absent or pending timed out, after the
\* largest number of attempts
C1_Witness ==
    \E i \in DOMAIN pipes :
        /\ config.maxPollingAttempts = MaxPollingAttempts
        /\ pipes[i].pc = "failed"
        /\ pipes[i].err.kind = "PollingError"
        /\ pipes[i].fetches = MaxPollingAttempts
        /\ pipes[i].images = 0

\* C2: whenever the polled job's entry of the current snapshot carries an error
\* field, the loop has raised GenerationError with that error text in the same
\* iteration: the iteration's snapshot request was its last and no delay followed.
C2_ErrorFieldShortCircuits ==
    \A i \in DOMAIN pipes :
        IsSome(pipes[i].jobError) =>
            /\ pipes[i].pc = "failed"
            /\ pipes[i].err.kind = "GenerationError"
            /\ pipes[i].err.text = Get(pipes[i].jobError)
            /\ pipes[i].fetches = pipes[i].sleeps + 1

\* C3: a pipeline that has asked for the artifact either gets it and is done, or
\* (the request failed) goes to sleep with no error raised, the public call still
\* waiting and the attempt counter untouched, also when the failure was a 401
\* that cleared the token; and the end of a sleep adds exactly one to the attempt
\* counter and leads to the next iteration, or to PollingError if the budget is
\* exhausted.
C3_ArtifactFailureConsumesOneAttempt ==
    [][\A i \in DOMAIN pipes :
        /\ (pipes[i].pc = "image" /\ pipes'[i] # pipes[i]) =>
              /\ pipes'[i].pc \in {"done", "sleep"}
              /\ token' # token => pipes'[i].pc = "sleep"
              /\ pipes'[i].pc = "sleep" =>
                    /\ pipes'[i].err = NoError
                    /\ pipes'[i].attempts = pipes[i].attempts
                    /\ pipes'[i].sleeps = pipes[i].sleeps
                    /\ pipes'[i].fetches = pipes[i].fetches
                    /\ phase' = phase
                    /\ error' = error
        /\ (pipes[i].pc = "sleep" /\ pipes'[i] # pipes[i]) =>
              /\ pipes'[i].sleeps = pipes[i].sleeps + 1
              /\ pipes'[i].fetches = pipes[i].fetches
              /\ IF pipes[i].attempts + 1 < config.maxPollingAttempts
                 THEN /\ pipes'[i].pc = "poll"
                      /\ pipes'[i].attempts = pipes[i].attempts + 1
                 ELSE /\ pipes'[i].pc = "failed"
                      /\ pipes'[i].err.kind = "PollingError"
                      /\ pipes'[i].err.n = pipes[i].attempts + 1]_vars

\* an edit whose artifact request was answered 401 (nothing else of an edit
\* survives a 401) is polling again
C3_Witness ==
    \E i \in DOMAIN pipes :
        /\ options.op = "edit"
        /\ pipes[i].pc = "poll"
        /\ pipes[i].images > 0
        /\ pipes[i].attempts > 0
        /\ token = NoToken
        /\ phase = "awaitAll"

----------------------------------------------------------------------------
(* Properties of a batch, checked of BatchSpec *)

\* C4: a generateImage call that returned for batchSize N returned N generation
\* ids and N image URLs, the k-th of each being the id the service gave to the
\* k-th launched pipeline and the data URL of that job's artifact, in whatever
\* order the pipelines ran and finished.
C4_BatchResultInLaunchOrder ==
    (phase = "returned" /\ options.op = "generate") =>
        LET N == Get(options.batchSize)
            r == Get(result)
        IN  /\ Len(r.generationIds) = N
            /\ Len(r.imageUrls) = N
            /\ \A k \in 1..N :
                 /\ r.generationIds[k] = NodeId(k - 1)
                 /\ r.imageUrls[k] = <<"data", "image/png", ImageOf(NodeId(k - 1))>>

\* a batch of the largest size returned
C4_Witness ==
    /\ phase = "returned"
    /\ options.batchSize = Some(MaxBatch)
    /\ Len(Get(result).imageUrls) = MaxBatch

\* C5: as soon as one pipeline of a generateImage call has failed, the call has
\* raised an error and has no result, and it never gets one, whatever the other
\* pipelines go on to produce.
C5_BatchFailsAtomically ==
    (\E i \in DOMAIN pipes : pipes[i].pc = "failed") =>
        /\ phase = "raised"
        /\ error # NoError
        /\ result = None

\* a batch in which one pipeline failed and another delivered its image
C5_Witness ==
    /\ phase = "raised"
    /\ options.op = "generate"
    /\ \E i \in DOMAIN pipes : pipes[i].pc = "failed"
    /\ \E i \in DOMAIN pipes : pipes[i].pc = "done"
    /\ result = None

\* C6: in a generateImage call with enhancePrompt = false no request has gone to
\* the prompt-enhancement endpoint, and every creation request carries the
\* caller's prompt as its caption.
C6_NoEnhancementWhenDisabled ==
    (phase # "idle" /\ options.op = "generate" /\ options.enhancePrompt = Some(FALSE)) =>
        /\ calls.infer = 0
        /\ enhancedPrompts = <<>>
        /\ wire.ep = "generation" => wire.caption = Some(options.prompt)

\* the last pipeline of a largest batch with enhancement disabled has submitted
C6_Witness ==
    /\ phase # "idle"
    /\ options.enhancePrompt = Some(FALSE)
    /\ options.batchSize = Some(MaxBatch)
    /\ wire.ep = "generation"
    /\ wire.status = 200
    /\ calls.generation = MaxBatch

\* C7: in a generateImage call whose seed is absent or -1, every creation
\* request carries a seed that is not negative.
C7_SentinelSeedNeverSubmitted ==
    (/\ phase # "idle"
     /\ options.op = "generate"
     /\ options.seed \in {None, Some(-1)}
     /\ wire.ep = "generation") => wire.seed >= 0

\* a call with seed -1: a pipeline whose jitter was 0 drew a seed of its own
C7_Witness ==
    /\ phase # "idle"
    /\ options.seed = Some(-1)
    /\ wire.ep = "generation"
    /\ wire.seed = GenerateSeedRange - 1

----------------------------------------------------------------------------
(* Properties of validation and of the job id, checked of Spec *)

\* C8: a generateImage or editImage call whose width or height is not supported,
\* or a generateImage call whose batchSize is less than 1, has raised a
\* validation error, and no request of any kind has been issued: no project
\* lookup, no enhancement, no chat, no creation, no pipeline.
C8_ValidationBeforeAnyRequest ==
    (/\ phase # "idle"
     /\ \/ IsSome(options.width) /\ Get(options.width) \notin SupportedDimensions
        \/ IsSome(options.height) /\ Get(options.height) \notin SupportedDimensions
        \/ /\ options.op = "generate"
           /\ IsSome(options.batchSize)
           /\ Get(options.batchSize) < 1) =>
        /\ phase = "raised"
        /\ error.kind = "ValidationError"
        /\ calls = [projects |-> 0, infer |-> 0, chat |-> 0, generation |-> 0]
        /\ DOMAIN pipes = {}
        /\ token = TheToken

\* a generateImage call with an unsupported width, by a client that would have
\* had to look its project up
C8_Witness ==
    /\ phase = "raised"
    /\ options.op = "generate"
    /\ options.width = Some(7)
    /\ config.projectId = None
    /\ error.kind = "ValidationError"

\* C9: an editImage call whose instruction or originatingGeneration is empty has
\* raised a validation error, and neither a chat request nor a creation request
\* has been issued.
C9_EditValidationBeforeChat ==
    (/\ phase # "idle"
     /\ options.op = "edit"
     /\ (options.instruction = "" \/ options.originatingGeneration = "")) =>
        /\ phase = "raised"
        /\ error.kind = "ValidationError"
        /\ calls.chat = 0
        /\ calls.generation = 0

\* an editImage call with supported dimensions and an empty instruction
C9_Witness ==
    /\ phase = "raised"
    /\ options.op = "edit"
    /\ options.width = None
    /\ options.height = Some(1024)
    /\ options.instruction = ""
    /\ options.originatingGeneration = "gen-0"
    /\ error.kind = "ValidationError"

----------------------------------------------------------------------------
(* Properties of the edit caption and of prompt enhancement, checked of Spec *)

\* C11: right after a chat request was answered with a body in which at least
\* one of the five extractors matches, the caption of the edit is the text found
\* by the first of them in the order response-as-JSON prompt, content,
\* choices[0].message.content, multi_content[0].text, bare string, whichever
\* others match as well.
C11_FirstChatExtractorWins ==
    (wire.ep = "chat" /\ wire.status = 200) =>
        LET b == Get(wire.chat)
            matches == [k \in 1..5 |->
                          CASE k = 1 -> b.response = "prompt"
                            [] k = 2 -> b.content
                            [] k = 3 -> b.choices
                            [] k = 4 -> b.multi
                            [] k = 5 -> b.bare]
        IN  \A k \in 1..5 :
              (matches[k] /\ \A j \in 1..(k - 1) : ~matches[j]) =>
                  /\ pipes[wire.pipe].pc = "submit"
                  /\ pipes[wire.pipe].caption = Some(<<"chat", k>>)

\* a chat response in which the first four extractors all match
C11_Witness ==
    /\ wire.ep = "chat"
    /\ wire.status = 200
    /\ Get(wire.chat).response = "prompt"
    /\ Get(wire.chat).content
    /\ Get(wire.chat).choices
    /\ Get(wire.chat).multi
    /\ pipes[wire.pipe].caption = Some(<<"chat", 1>>)

\* C12: right after a chat request failed, or was answered with a body in which
\* none of the five extractors matches, the edit has failed and editImage has
\* raised: there is no caption, no result, no creation request and no snapshot
\* request.
C12_ChatFailurePropagates ==
    (/\ wire.ep = "chat"
     /\ \/ wire.status # 200
        \/ /\ Get(wire.chat).response # "prompt"
           /\ ~Get(wire.chat).content
           /\ ~Get(wire.chat).choices
           /\ ~Get(wire.chat).multi
           /\ ~Get(wire.chat).bare) =>
        /\ pipes[wire.pipe].pc = "failed"
        /\ pipes[wire.pipe].err # NoError
        /\ pipes[wire.pipe].caption = None
        /\ pipes[wire.pipe].fetches = 0
        /\ phase = "raised"
        /\ error # NoError
        /\ result = None
        /\ calls.generation = 0

\* a chat response that is an object with a response string that is not JSON and
\* nothing else
C12_Witness ==
    /\ wire.ep = "chat"
    /\ wire.status = 200
    /\ Get(wire.chat).response = "notjson"
    /\ ~Get(wire.chat).content
    /\ ~Get(wire.chat).choices
    /\ ~Get(wire.chat).multi
    /\ phase = "raised"

\* C13: right after enhancePrompt returned, nothing has been raised: its caller
\* goes on to submit and the public call is still waiting; and if the project
\* lookup failed, or the inference request failed, or its response is not a
\* non-empty array, or the last step's status is not success, or the last step
\* has no expanded_prompts array, what it returned is the one prompt it was
\* given, unchanged.
C13_EnhanceNeverRaises ==
    IsSome(wire.returned) =>
        /\ pipes[wire.pipe].pc = "submit"
        /\ pipes[wire.pipe].err = NoError
        /\ phase = "awaitAll"
        /\ error = NoError
        /\ (\/ wire.ep = "projects"
            \/ wire.status # 200
            \/ wire.infer = None
            \/ Len(Get(wire.infer)) = 0
            \/ Get(wire.infer)[Len(Get(wire.infer))].status # "success"
            \/ Get(wire.infer)[Len(Get(wire.infer))].expanded = None) =>
               /\ Get(wire.returned) = <<options.prompt>>
               /\ pipes[wire.pipe].caption = Some(options.prompt)

\* an inference response whose last step failed although it carries expanded
\* prompts
C13_Witness ==
    /\ wire.ep = "infer"
    /\ wire.status = 200
    /\ IsSome(wire.infer)
    /\ Len(Get(wire.infer)) > 0
    /\ Get(wire.infer)[1].status = "error"
    /\ Get(wire.infer)[1].expanded = Some(Variants(MaxVariants))
    /\ Get(wire.returned) = <<ThePrompt>>

----------------------------------------------------------------------------
(* Properties of the polling loop's exchanges, checked of Spec *)

\* C14: a snapshot fetch that fails, in whichever iteration, makes the loop
\* raise in that very iteration: the error the interceptor rejected with when
\* it is an SDK error, the wrapped one otherwise; the failed fetch is not
\* followed by a sleep (one more fetch than sleeps: it was not counted as an
\* attempt), the public call raises, and the failed pipeline never moves again
\* (no further snapshot fetch)
C14_FailedFetchRaisesAtOnce ==
    /\ [](wire.ep = "node" /\ wire.status # 200 =>
            LET p == pipes[wire.pipe] IN
            /\ p.pc = "failed"
            /\ p.err = IF wire.rejected.sdk THEN wire.rejected
                       ELSE handleAxiosError(wire.rejected, "polling generation status")
            /\ p.err.sdk
            /\ p.fetches = p.sleeps + 1
            /\ phase = "raised"
            /\ error = p.err)
    /\ [][\A i \in DOMAIN pipes :
            pipes[i].pc = "failed" => i \in DOMAIN pipes' /\ pipes'[i] = pipes[i]]_vars

\* the fetch of the third iteration failed with a server error
C14_Witness ==
    /\ wire.ep = "node"
    /\ wire.status = 500
    /\ pipes[wire.pipe].pc = "failed"
    /\ pipes[wire.pipe].sleeps = 2
    /\ pipes[wire.pipe].fetches = 3
    /\ phase = "raised"
\* C15: when the snapshot lists the polled job with an output reference, the
\* loop goes for the artifact in that iteration holding the job's recorded
\* inference seed (0 included), or -1 when none is recorded; and when the
\* artifact request then succeeds the loop returns in that same iteration
\* exactly one artifact reference, the data URL of what was fetched, with that
\* seed, which is the seed of the public call's result
C15_OutputReturnsOneArtifactAndSeed ==
    /\ [](wire.ep = "node" /\ wire.status = 200 /\ IsSome(wire.snapshot) =>
            LET p == pipes[wire.pipe]
                list == Get(wire.snapshot)
            IN  \A k \in 1..Len(list) :
                    /\ list[k].id = Get(wire.polled)
                    /\ IsSome(list[k].data)
                    /\ IsSome(Get(list[k].data).output)
                    =>  /\ p.pc = "image"
                        /\ p.imageId = Get(list[k].data).output
                        /\ p.fetches = p.sleeps + 1
                        /\ p.jobSeed = IF Get(list[k].data).seed = None THEN -1
                                       ELSE Get(Get(list[k].data).seed))
    /\ [][\A i \in DOMAIN pipes :
            pipes[i].pc = "image" /\ wire'.ep = "image" /\ wire'.pipe = i
                /\ wire'.status = 200
            =>  /\ pipes'[i].pc = "done"
                /\ Len(pipes'[i].imageUrl) = 1
                /\ pipes'[i].imageUrl[1] =
                       <<"data",
                         IF Get(wire'.image).contentType = None THEN "image/webp"
                         ELSE Get(Get(wire'.image).contentType),
                         Get(pipes[i].imageId)>>
                /\ pipes'[i].jobSeed = pipes[i].jobSeed
                /\ pipes'[i].sleeps = pipes[i].sleeps
                /\ pipes'[i].fetches = pipes[i].fetches
                /\ phase' = "returned"
                /\ Get(result').seed = pipes[i].jobSeed
                /\ IF options.op = "generate"
                   THEN Get(result').imageUrls = pipes'[i].imageUrl
                   ELSE Get(result').imageUrl = pipes'[i].imageUrl[1]]_vars

\* the job done in the second iteration with a recorded seed of 0
C15_Witness ==
    /\ wire.ep = "image"
    /\ wire.status = 200
    /\ pipes[wire.pipe].pc = "done"
    /\ pipes[wire.pipe].jobSeed = 0
    /\ pipes[wire.pipe].sleeps = 1
    /\ phase = "returned"
    /\ Get(result).seed = 0
----------------------------------------------------------------------------
(* Properties of error propagation and of the token, checked of Spec *)

C17_Every401IsAuthenticationError ==
    wire.status = 401 =>
        /\ wire.rejected = ReveAIError("AuthenticationError",
                                       "Authentication token expired", 0, 401)
        /\ token = NoToken
----------------------------------------------------------------------------
(* Properties of editImage and of the job's identifier, checked of Spec *)

\* C18: an editImage call, whatever its batchSize and enhancePrompt flags, runs
\* one pipeline: it makes no prompt-expansion request, at most one creation
\* request and exactly one when it returns, polls one job, and raises a
\* validation error only for options that are invalid without the flags
C18_EditIgnoresBatchAndEnhanceFlags ==
    phase # "idle" /\ options.op = "edit" =>
        /\ DOMAIN pipes \subseteq {0}
        /\ calls.infer = 0
        /\ wire.ep # "infer"
        /\ calls.projects <= 1
        /\ calls.generation <= 1
        /\ wire.ep \in {"node", "generation", "chat", "image"} => wire.pipe = 0
        /\ phase = "returned" =>
               /\ calls.generation = 1
               /\ calls.chat = 1
               /\ pipes[0].fetches >= 1
        /\ DOMAIN pipes = {} =>
               /\ phase = "raised"
               /\ error.kind = "ValidationError"
               /\ \/ validateImageOptions(options.width, options.height, None) # NoError
                  \/ validateEditImageOptions(options.instruction,
                                              options.originatingGeneration) # NoError

\* an edit asked for two items with enhancement has returned its one result
C18_Witness ==
    /\ phase = "returned"
    /\ options.op = "edit"
    /\ options.batchSize = Some(2)
    /\ options.enhancePrompt = Some(TRUE)
    /\ calls.generation = 1
    /\ calls.infer = 0
    /\ DOMAIN pipes = {0}
\* C19: the id a pipeline polls for and reports is the one extracted from the
\* creation response (the nested one, else the legacy one), which differs from
\* the id the client generated and sent: it is the loop's id from the
\* submission on and stays so while the loop runs; a snapshot's entry makes
\* the loop go for the artifact only when listed under that id, and an entry
\* listed under the client's id, output and all, leaves the loop waiting; the
\* result reports that id
C19_ServerIdIsAuthoritative ==
    /\ [](wire.ep = "generation" /\ wire.status = 200
            /\ pipes[wire.pipe].pc \in {"poll", "image", "sleep", "done"} =>
            LET p == pipes[wire.pipe]
                extracted == IF wire.body.create # None THEN wire.body.create
                             ELSE wire.body.generation_id
            IN  /\ IsSome(extracted)
                /\ p.genId = extracted
                /\ p.genId # wire.clientId)
    /\ [][\A i \in DOMAIN pipes :
            pipes[i].pc \in {"poll", "image", "sleep"} /\ i \in DOMAIN pipes' =>
            LET g == Get(pipes[i].genId) IN
            /\ pipes'[i].pc # "failed" => pipes'[i].genId = pipes[i].genId
            /\ pipes[i].pc = "poll" /\ wire'.ep = "node" /\ wire'.status = 200 =>
                   LET list == IF wire'.snapshot = None THEN <<>>
                               ELSE Get(wire'.snapshot)
                       ours == {k \in 1..Len(list) : list[k].id = g}
                   IN  /\ pipes'[i].pc = "image" =>
                              \E k \in ours :
                                  /\ IsSome(list[k].data)
                                  /\ pipes'[i].imageId = Get(list[k].data).output
                       /\ ours = {} => pipes'[i].pc = "sleep"
            /\ pipes'[i].pc = "done" =>
                   /\ phase' = "returned"
                   /\ IF options.op = "generate"
                      THEN Get(result').generationIds = <<g>>
                      ELSE Get(result').generationId = g]_vars

\* the job listed with its output under the id the client sent, while the
\* creation response named another: the loop does not take it for its job
C19_Witness ==
    /\ wire.ep = "node"
    /\ wire.status = 200
    /\ IsSome(wire.snapshot)
    /\ \E k \in 1..Len(Get(wire.snapshot)) :
           /\ Get(wire.snapshot)[k].id = ClientId(wire.pipe)
           /\ IsSome(Get(wire.snapshot)[k].data)
           /\ IsSome(Get(Get(wire.snapshot)[k].data).output)
    /\ pipes[wire.pipe].pc = "sleep"
    /\ pipes[wire.pipe].genId = Some(NodeId(wire.pipe))
----------------------------------------------------------------------------
(* Properties of the attempt counter, checked of Spec *)

\* C20: while a polling loop runs its counter is between 0 and
\* maxPollingAttempts and equals the number of delays completed, and no loop
\* ever issues more than maxPollingAttempts snapshot requests or completes
\* more delays; the loop starts at 0; the counter moves only with the delay
\* that ends an iteration, by one, and such a delay ends every iteration that
\* found the job absent or pending or failed to fetch the artifact
C20_AttemptsCountCompletedSleeps ==
    /\ [](\A i \in DOMAIN pipes :
            /\ pipes[i].fetches <= config.maxPollingAttempts
            /\ pipes[i].sleeps <= config.maxPollingAttempts
            /\ pipes[i].pc \in {"poll", "image", "sleep"} =>
                   /\ 0 <= pipes[i].attempts
                   /\ pipes[i].attempts <= config.maxPollingAttempts
                   /\ pipes[i].attempts = pipes[i].sleeps)
    /\ [][\A i \in DOMAIN pipes : i \in DOMAIN pipes' =>
            LET p == pipes[i]
                q == pipes'[i]
                running == {"poll", "image", "sleep"}
            IN  /\ p.pc \notin running /\ q.pc \in running => q.attempts = 0
                /\ p.pc \in running /\ q.pc \in running =>
                       q.attempts = IF p.pc = "sleep" THEN p.attempts + 1
                                    ELSE p.attempts
                /\ p.pc = "sleep" /\ q.pc = "failed" =>
                       /\ q.err.kind = "PollingError"
                       /\ q.err.n = p.attempts + 1
                       /\ q.sleeps = p.sleeps + 1
                /\ p.pc \in {"poll", "image"} => q.sleeps = p.sleeps
                /\ p.pc = "poll" /\ wire'.ep = "node" /\ wire'.status = 200
                       /\ q.pc \notin {"image", "failed"} => q.pc = "sleep"
                /\ p.pc = "image" /\ wire'.ep = "image" /\ wire'.status # 200 =>
                       q.pc = "sleep"]_vars

\* a loop in its last permitted iteration, one delay after a job found pending
\* and one after a failed artifact request behind it
C20_Witness ==
    \E i \in DOMAIN pipes :
        /\ config.maxPollingAttempts = MaxPollingAttempts
        /\ pipes[i].pc = "poll"
        /\ pipes[i].attempts = MaxPollingAttempts - 1
        /\ pipes[i].sleeps = MaxPollingAttempts - 1
        /\ pipes[i].images >= 1
        /\ pipes[i].images < pipes[i].fetches
----------------------------------------------------------------------------
(* Properties of the batch's prompts, seeds and result, checked of BatchSpec *)

\* C21: in a generateImage call with enhancement enabled and a batch of more
\* than one, the prompt-expansion endpoint is requested once, up front and
\* before any creation request, and no pipeline requests it again
C21_OneEnhancementCallPerBatch ==
    (DOMAIN pipes # {} /\ options.op = "generate"
        /\ shouldEnhance(options) /\ batchSizeOf(options) > 1) =>
        /\ calls.infer = 1
        /\ \A i \in DOMAIN pipes : pipes[i].pc # "enhance"
C23_ExplicitSeedSubmittedAsGiven ==
    (DOMAIN pipes # {} /\ options.op = "generate" /\ IsSome(options.seed)
        /\ wire.ep = "generation") =>
        wire.seed = Get(options.seed)
\* C24: the result of a generateImage call of one pipeline reports that
\* pipeline's caption in the field caption and has no captions; the result of
\* a call of more pipelines reports their captions in the array captions, in
\* pipeline order, and has no caption; so exactly one of the two is present
C24_CaptionOrCaptions ==
    (phase = "returned" /\ options.op = "generate") =>
        LET N == batchSizeOf(options)
            r == Get(result)
        IN  /\ DOMAIN pipes = 0..(N - 1)
            /\ N = 1 => r.caption = pipes[0].caption /\ r.captions = None
            /\ N > 1 => /\ r.caption = None
                        /\ IsSome(r.captions)
                        /\ Len(Get(r.captions)) = N
                        /\ \A k \in 1..N : Some(Get(r.captions)[k]) = pipes[k - 1].caption
            /\ IsSome(r.caption) # IsSome(r.captions)
            /\ \A i \in DOMAIN pipes :
                   /\ IsSome(pipes[i].caption)
                   /\ ~shouldEnhance(options) => pipes[i].caption = Some(options.prompt)
                   /\ shouldEnhance(options) /\ N > 1 /\ Len(enhancedPrompts) > 0 =>
                          pipes[i].caption =
                             Some(enhancedPrompts[(i % Len(enhancedPrompts)) + 1])

\* a batch of the largest size returned with its variants as captions, none
\* as the single caption
C24_Witness ==
    /\ phase = "returned"
    /\ options.batchSize = Some(MaxBatch)
    /\ MaxBatch > 1
    /\ Get(result).caption = None
    /\ Get(result).captions = Some([k \in 1..MaxBatch |-> Variant(k - 1)])
\* C25: the result of a generateImage call reports the enhanced prompts its
\* pipelines used as captions are reported: one in the field enhancedPrompt
\* with no enhancedPrompts, more than one in the array enhancedPrompts with no
\* enhancedPrompt; and it has neither field when enhancement was disabled
C25_EnhancedPromptOrEnhancedPrompts ==
    (phase = "returned" /\ options.op = "generate") =>
        LET r == Get(result)
            used == SelectSeq([k \in 1..batchSizeOf(options) |->
                                  IF pipes[k - 1].caption # Some(options.prompt)
                                  THEN pipes[k - 1].caption ELSE None], IsSome)
        IN  /\ ~shouldEnhance(options) =>
                   r.enhancedPrompt = None /\ r.enhancedPrompts = None
            /\ shouldEnhance(options) /\ Len(used) = 1 =>
                   r.enhancedPrompt = used[1] /\ r.enhancedPrompts = None
            /\ shouldEnhance(options) /\ Len(used) > 1 =>
                   /\ r.enhancedPrompt = None
                   /\ r.enhancedPrompts = Some([k \in 1..Len(used) |-> Get(used[k])])
----------------------------------------------------------------------------
(* Properties of the edit's caption, checked of Spec *)

\* C26: an editImage call makes the chat request of enhanceEditPrompt at most
\* once and exactly once before its creation request; the caption of the
\* creation request and the finalCaption of the result are the text
\* enhanceEditPrompt extracted from the chat response, kept unchanged in
\* between, and never the caller's prompt
C26_EditCaptionComesFromChat ==
    /\ [](phase # "idle" /\ options.op = "edit" =>
            /\ calls.chat <= 1
            /\ calls.generation >= 1 => calls.chat = 1
            /\ \A i \in DOMAIN pipes :
                   pipes[i].pc \in {"submit", "poll", "image", "sleep", "done"} =>
                       /\ calls.chat = 1
                       /\ IsSome(pipes[i].caption)
                       /\ pipes[i].caption # Some(options.prompt)
            /\ wire.ep = "generation" =>
                   IsSome(wire.caption) /\ wire.caption # Some(options.prompt)
            /\ phase = "returned" =>
                   /\ Get(result).finalCaption = Get(pipes[0].caption)
                   /\ Get(result).finalCaption # options.prompt)
    /\ [][phase # "idle" /\ options.op = "edit" =>
            \A i \in DOMAIN pipes :
                /\ wire'.ep = "chat" /\ pipes'[i].pc = "submit" =>
                       /\ wire'.status = 200
                       /\ pipes'[i].caption = chatPrompt(Get(wire'.chat))
                /\ wire'.ep = "generation" => wire'.caption = pipes[i].caption
                /\ IsSome(pipes[i].caption) /\ pipes'[i].pc # "failed" =>
                       pipes'[i].caption = pipes[i].caption]_vars

\* an edit returned with the caption the chat gave in its response field
C26_Witness ==
    /\ phase = "returned"
    /\ options.op = "edit"
    /\ calls.chat = 1
    /\ calls.generation = 1
    /\ Get(result).finalCaption = <<"chat", 1>>
----------------------------------------------------------------------------
(* Properties of the pipelines of one batch, checked of BatchSpec *)

\* C27: what a pipeline of a batch makes of a response does not depend on what
\* the other pipelines did before: in a call with enhancement disabled and the
\* project configured, where the creation request is a pipeline's first
\* request, a pipeline whose creation request is answered 401 fails with the
\* AuthenticationError, whatever the responses the other pipelines received
C27_PipelineOutcomeIsItsOwn ==
    (DOMAIN pipes # {} /\ options.op = "generate" /\ ~shouldEnhance(options)
        /\ IsSome(config.projectId)
        /\ wire.ep = "generation" /\ wire.status = 401) =>
        /\ pipes[wire.pipe].pc = "failed"
        /\ pipes[wire.pipe].err =
               ReveAIError("AuthenticationError", "Authentication token expired", 0, 401)
\* C28: the attempt counter is a pipeline's own: a step of one pipeline leaves
\* every other pipeline of the batch, its counter included, as it was; a
\* running loop's counter equals the delays that pipeline itself completed;
\* and a pipeline that timed out did so after exactly maxPollingAttempts
\* snapshot requests and delays of its own, in whatever order the pipelines ran
C28_OwnAttemptCounter ==
    /\ [](\A i \in DOMAIN pipes :
            /\ pipes[i].pc \in {"poll", "image", "sleep"} =>
                   /\ pipes[i].attempts = pipes[i].sleeps
                   /\ pipes[i].attempts < config.maxPollingAttempts
            /\ pipes[i].pc = "failed" /\ pipes[i].err.kind = "PollingError" =>
                   /\ pipes[i].err.n = config.maxPollingAttempts
                   /\ pipes[i].sleeps = config.maxPollingAttempts
                   /\ pipes[i].fetches = config.maxPollingAttempts)
    /\ [][\A i \in DOMAIN pipes : \A j \in DOMAIN pipes :
            (i # j /\ DOMAIN pipes' = DOMAIN pipes /\ pipes'[i] # pipes[i]) =>
                pipes'[j] = pipes[j]]_vars

\* every pipeline of a largest batch timed out on its own full budget
C28_Witness ==
    /\ DOMAIN pipes = 0..(MaxBatch - 1)
    /\ MaxBatch > 1
    /\ \A i \in DOMAIN pipes :
           /\ pipes[i].pc = "failed"
           /\ pipes[i].err.kind = "PollingError"
           /\ pipes[i].sleeps = BatchPollingAttempts
\* C29: once generateImage has raised, every pipeline of the batch that has
\* not reached a terminal state of its own can still take its next step: the
\* project lookup, the enhancement, the creation request, the snapshot
\* request, the artifact request or the delay it is at
C29_NoCancellationAfterRaise ==
    phase = "raised" =>
        \A j \in DOMAIN pipes :
            /\ pipes[j].pc = "projectId" => ENABLED PipeProjectId(LeanWorld, j)
            /\ pipes[j].pc = "enhance" => ENABLED PipeEnhance(LeanWorld, j)
            /\ pipes[j].pc = "submit" => ENABLED PipeSubmit(LeanWorld, j)
            /\ pipes[j].pc = "poll" => ENABLED PipePoll(LeanWorld, j)
            /\ pipes[j].pc = "image" => ENABLED PipeImage(LeanWorld, j)
            /\ pipes[j].pc = "sleep" => ENABLED PipeSleep(j)
            /\ pipes[j].pc \in {"projectId", "enhance", "submit", "poll", "image",
                                 "sleep", "done", "failed"}

\* a batch with enhancement disabled whose first pipeline failed on a 401,
\* raising the call and clearing the token, and whose second pipeline made its
\* snapshot request after that: the request was answered 401 with the token
\* already cleared
C29_Witness ==
    /\ phase = "raised"
    /\ options.op = "generate"
    /\ ~shouldEnhance(options)
    /\ DOMAIN pipes = {0, 1}
    /\ pipes[0].pc = "failed"
    /\ pipes[0].err.kind = "AuthenticationError"
    /\ pipes[0].fetches = 0
    /\ pipes[1].pc = "failed"
    /\ pipes[1].fetches = 1
    /\ pipes[1].images = 0
    /\ pipes[1].err.status = 401
    /\ pipes[1].err.kind # "AuthenticationError"
----------------------------------------------------------------------------
(* Properties of the request headers, checked of HeaderSpec *)

\* the custom header names of the client, as the interceptor writes them
CustomNames ==
    {toLowerCase(config.customHeaders[k][1]) : k \in DOMAIN config.customHeaders}

\* C30 as stated: every request leaves with the authorization value and the
\* cookie value of options.auth
C30_EveryRequestCarriesTheAuthValues ==
    wire.ep # "none" =>
        /\ wire.headers.authorization = config.auth.authorization
        /\ wire.headers.cookie = config.auth.cookie

\* C30: every request of a client leaves with the authorization value of
\* options.auth unless a custom header is named authorization, and with the
\* cookie value of options.auth unless a custom header is named cookie (in
\* any letter case), whether this.token is cached or has been cleared; a
\* custom header of such a name replaces the value in every request
C30_AuthValuesUnlessCustomHeaderOverrides ==
    wire.ep # "none" =>
        /\ "authorization" \notin CustomNames =>
               wire.headers.authorization = config.auth.authorization
        /\ "cookie" \notin CustomNames =>
               wire.headers.cookie = config.auth.cookie
        /\ \A k \in DOMAIN config.customHeaders :
               toLowerCase(config.customHeaders[k][1]) \in {"authorization", "cookie"} =>
                   wire.headers[toLowerCase(config.customHeaders[k][1])]
                       = config.customHeaders[k][2]

\* a request answered 401 after the token had been cleared (the interceptor
\* passes the response error through), by a client whose only custom header
\* is the user agent: it left with the credentials of options.auth
C30_Witness ==
    /\ wire.ep # "none"
    /\ wire.status = 401
    /\ token = NoToken
    /\ wire.rejected.kind # "AuthenticationError"
    /\ config.customHeaders = <<<<"User-Agent", "agent">>>>
    /\ wire.headers["user-agent"] = "agent"
    /\ wire.headers.authorization = TheAuth.authorization
    /\ wire.headers.cookie = TheAuth.cookie
----------------------------------------------------------------------------
(* Properties of the project lookup, checked of Spec *)

\* C31: a client configured with a project id issues no request to
\* /api/projects and its pipeline works under the configured id; otherwise
\* the pipeline's lookup answered with a non-empty array yields the id of the
\* first record, an empty array or a body that is no array raises the
\* ApiError "No projects found", and a 404 raises the ApiError with status
\* code 404 (the lookup that enhancePrompt makes for itself raises the same
\* and enhancePrompt catches it); and the creation request, every snapshot request and the
\* artifact request of a pipeline go to the project the lookup gave it, which
\* does not change while the pipeline runs
C31_ProjectIdConfiguredOrFirstListed ==
    /\ [](/\ IsSome(config.projectId) =>
               /\ calls.projects = 0
               /\ \A i \in DOMAIN pipes :
                      pipes[i].pc \notin {"projectId", "failed"} =>
                          pipes[i].projectId = config.projectId
          /\ wire.ep = "projects" => config.projectId = None
          /\ wire.ep = "projects" /\ wire.pipe >= 0 /\ wire.returned = None =>
               LET p == pipes[wire.pipe] IN
               /\ p.pc \in {"failed", "chat", "enhance", "submit"}
               /\ wire.status = 200 /\ IsSome(wire.projects)
                      /\ Len(Get(wire.projects)) > 0 /\ p.pc # "failed" =>
                      p.projectId = Some(Get(wire.projects)[1])
               /\ wire.status = 200
                      /\ (wire.projects = None \/ wire.projects = Some(<<>>)) =>
                      /\ p.pc = "failed"
                      /\ p.err = ReveAIError("ApiError", "No projects found", 0, 0)
                      /\ error = p.err
               /\ wire.status = 404 =>
                      /\ p.pc = "failed"
                      /\ p.err.kind = "ApiError"
                      /\ p.err.status = 404
                      /\ error = p.err
          /\ wire.ep \in {"generation", "node", "image"} =>
               /\ IsSome(wire.project)
               /\ pipes[wire.pipe].pc # "failed" =>
                      wire.project = pipes[wire.pipe].projectId)
    /\ [][\A i \in DOMAIN pipes :
            (/\ i \in DOMAIN pipes'
             /\ pipes[i].pc \notin {"projectId", "failed"}
             /\ pipes'[i].pc # "failed") =>
                pipes'[i].projectId = pipes[i].projectId]_vars

\* a pipeline of a client without a configured project whose lookup was
\* answered with two projects: its artifact request went to the first
C31_Witness ==
    /\ config.projectId = None
    /\ wire.ep = "image"
    /\ wire.status = 200
    /\ wire.project = Some("P2")
    /\ pipes[wire.pipe].projectId = Some("P2")
    /\ pipes[wire.pipe].fetches > 1
----------------------------------------------------------------------------
(* Properties of construction, checked of NewSpec *)

\* C32: the constructor given no auth options, or an authorization value
\* that is missing or empty, or a cookie value that is missing or empty,
\* throws AuthenticationError and leaves no instance: nothing is ever
\* requested; and an instance exists only if both values were given
\* non-empty, and it holds exactly those two values
C32_ConstructionNeedsBothCredentials ==
    /\ [](/\ DOMAIN config = {} =>
               /\ phase \in {"new", "raised"}
               /\ DOMAIN pipes = {}
               /\ calls = [projects |-> 0, infer |-> 0, chat |-> 0, generation |-> 0]
               /\ wire = NoWire
          /\ DOMAIN config = {} /\ phase = "raised" =>
               /\ error.kind = "AuthenticationError"
               /\ error.sdk
               /\ \/ options.auth = None
                  \/ Get(options.auth).authorization \in {None, Some("")}
                  \/ Get(options.auth).cookie \in {None, Some("")})
    /\ [][phase = "new" /\ phase' # "new" =>
            IF \/ options.auth = None
               \/ Get(options.auth).authorization \in {None, Some("")}
               \/ Get(options.auth).cookie \in {None, Some("")}
            THEN /\ phase' = "raised"
                 /\ error'.kind = "AuthenticationError"
                 /\ DOMAIN config' = {}
            ELSE /\ phase' = "idle"
                 /\ error' = NoError
                 /\ config'.auth = [authorization |-> Get(Get(options.auth).authorization),
                                    cookie |-> Get(Get(options.auth).cookie)]]_vars

\* the constructor has thrown for an authorization value that is there and
\* a cookie that is empty
C32_Witness ==
    /\ phase = "raised"
    /\ DOMAIN config = {}
    /\ error.kind = "AuthenticationError"
    /\ options.op = "new"
    /\ options.auth # None
    /\ Get(options.auth).authorization = Some("Bearer token")
    /\ Get(options.auth).cookie = Some("")
----------------------------------------------------------------------------
(* Properties of termination, checked of FairSpec *)

\* C33: when every request is answered and every delay ends, a call that has
\* started returns or raises, and every pipeline it has launched ends in
\* done (Succeeded) or failed (the job's error, the exhausted loop, a failed
\* fetch or an earlier failure), whether or not the call has raised in the
\* meantime, having issued at most maxPollingAttempts snapshot requests
C33_EveryCallTerminates ==
    /\ (phase \in {"enhance", "awaitAll"}) ~> (phase \in {"returned", "raised"})
    /\ (DOMAIN pipes # {}) ~>
           (DOMAIN pipes # {} /\ \A i \in DOMAIN pipes : pipes[i].pc \in {"done", "failed"})
    /\ [](\A i \in DOMAIN pipes : pipes[i].fetches <= config.maxPollingAttempts)

\* a full batch whose call raised on the failure of the last pipeline while
\* the first ran on to the end of its loop
C33_Witness ==
    /\ phase = "raised"
    /\ DOMAIN pipes = 0..(FairBatch - 1)
    /\ FairBatch > 1
    /\ pipes[FairBatch - 1].pc = "failed"
    /\ pipes[FairBatch - 1].fetches = 0
    /\ pipes[0].pc = "failed"
    /\ pipes[0].err.kind = "PollingError"
    /\ pipes[0].fetches = FairPollingAttempts
----------------------------------------------------------------------------
(* Properties of the snapshot without a list, checked of Spec *)

\* C34: a snapshot answered 200 whose body has no list (or a list that is no
\* array) raises nothing: the iteration goes to its delay with nothing but
\* the request counted, the call still waiting, exactly as when the list
\* does not hold the job; and the delay that follows counts one attempt and,
\* below the maximum, leads to the next snapshot request
C34_SnapshotWithoutListIsRetried ==
    /\ [](wire.ep = "node" /\ wire.status = 200 /\ wire.snapshot = None =>
            /\ pipes[wire.pipe].pc = "sleep"
            /\ pipes[wire.pipe].err = NoError
            /\ pipes[wire.pipe].attempts < config.maxPollingAttempts
            /\ phase = "awaitAll"
            /\ error = NoError)
    /\ [][\A i \in DOMAIN pipes :
            /\ (/\ pipes[i].pc = "poll"
                /\ wire'.ep = "node" /\ wire'.pipe = i /\ wire'.status = 200
                /\ \/ wire'.snapshot = None
                   \/ /\ IsSome(wire'.snapshot)
                      /\ find(Get(wire'.snapshot), Get(pipes[i].genId)) = None) =>
                    pipes'[i] = [pipes[i] EXCEPT !.pc = "sleep", !.fetches = @ + 1]
            /\ (/\ wire.ep = "node" /\ wire.pipe = i /\ wire.status = 200
                /\ wire.snapshot = None
                /\ pipes'[i] # pipes[i]) =>
                    /\ pipes'[i].attempts = pipes[i].attempts + 1 \/ pipes'[i].pc = "failed"
                    /\ pipes[i].attempts + 1 < config.maxPollingAttempts =>
                           pipes'[i] = [pipes[i] EXCEPT !.pc = "poll", !.attempts = @ + 1,
                                                        !.sleeps = @ + 1]
                    /\ pipes[i].attempts + 1 >= config.maxPollingAttempts =>
                           /\ pipes'[i].pc = "failed"
                           /\ pipes'[i].err.kind = "PollingError"]_vars

\* the second snapshot of a loop comes without a list and the loop goes to
\* its delay once more
C34_Witness ==
    /\ wire.ep = "node"
    /\ wire.status = 200
    /\ wire.snapshot = None
    /\ pipes[wire.pipe].pc = "sleep"
    /\ pipes[wire.pipe].fetches = 2
    /\ pipes[wire.pipe].attempts = 1
    /\ config.maxPollingAttempts > 2
----------------------------------------------------------------------------
(* Properties of the edit's seed, checked of Spec *)

\* C35: in an editImage call whose seed is absent or -1, the creation
\* request carries a seed that is not negative
C35_EditNeverSubmitsTheSentinel ==
    (/\ phase # "idle"
     /\ options.op = "edit"
     /\ options.seed \in {None, Some(-1)}
     /\ wire.ep = "generation") => wire.seed >= 0
----------------------------------------------------------------------------
(* Properties of the variants fetched up front, checked of BatchSpec *)

\* C36: once a batch of more than one with enhancement enabled has launched
\* its pipelines, enhancePrompt has returned at least one prompt: the
\* variants fetched up front are not empty
C36_EnhancePromptNeverReturnsEmpty ==
    (/\ DOMAIN pipes # {}
     /\ options.op = "generate"
     /\ shouldEnhance(options)
     /\ batchSizeOf(options) > 1) => Len(enhancedPrompts) >= 1
----------------------------------------------------------------------------
(* Properties of the cached token, checked of NewSpec *)

\* C37: this.token is null until the constructor has run; the constructor
\* sets it to the token of the authorization value (null when the value is
\* no bearer value); after that it changes only in a step whose request was
\* answered 401 while it was cached, and only to null; once null it stays
\* null, and no other step of a call changes it
C37_TokenOnlyClearedBy401 ==
    /\ [](phase = "new" => token = NoToken)
    /\ [][/\ (phase = "new" /\ phase' = "idle") =>
                token' = bearerToken(Get(Get(options.auth).authorization))
          /\ (phase # "new" /\ token' # token) =>
                /\ token' = NoToken
                /\ wire'.status = 401
                /\ wire'.rejected.kind = "AuthenticationError"
          /\ (phase # "new" /\ token = NoToken) => token' = NoToken
          /\ (phase # "new" /\ wire'.status # 401) => token' = token]_vars

\* a client built with a bearer value whose token a 401 has cleared (the
\* enhancement's, caught there) and which has gone on to submit
C37_Witness ==
    /\ phase = "awaitAll"
    /\ bearerToken(config.auth.authorization) = TheToken
    /\ token = NoToken
    /\ wire.ep = "generation"
    /\ wire.status = 200
    /\ calls.infer = 1
----------------------------------------------------------------------------
(* Properties of the worker's credential store, checked of StoreSpec *)

\* the users whose credentials are read
UserIds == {"casey", "bob"}

\* the fields of a user's credentials
CredentialFields == {"authToken", "cookie", "projectId", "reveVersion"}

\* C38 as stated: after a request has written for a user, getCredentials of
\* that user returns, for each field, the value last written
C38_GetCredentialsReturnsLastWritten ==
    (DOMAIN request # {} /\ truthy(request.userId)) =>
        LET r == getCredentials(kv, Get(request.userId)) IN
        /\ ~r.threw
        /\ \A f \in CredentialFields : request[f] # None => r[f] = request[f]

\* C38: a request stores, for its user, each field whose value is not null
\* or undefined and leaves every other field of that user and every field
\* of every other user as it was (the default user under the bare names,
\* any other under user-<id>-<name>); and getCredentials of a user returns
\* the four stored values when the stored authToken and cookie are both
\* there and not empty, and throws otherwise
C38_LastWrittenPerUserWhenComplete ==
    [][\A u \in UserIds :
        LET before == storedCredentials(kv, u)
            after == storedCredentials(kv', u)
            r == getCredentials(kv', u)
        IN  /\ \A f \in CredentialFields :
                   after[f] = IF request'.userId = Some(u) /\ request'[f] # None
                              THEN request'[f]
                              ELSE before[f]
            /\ request'.userId # Some(u) => getCredentials(kv', u) = getCredentials(kv, u)
            /\ IF truthy(after.authToken) /\ truthy(after.cookie)
               THEN /\ ~r.threw
                    /\ \A f \in CredentialFields : r[f] = after[f]
               ELSE r.threw]_vars

\* both users have complete credentials of their own, and the last request,
\* for bob, carried a project id and no authToken: bob's token is the one
\* written before, the default user's values are untouched
C38_Witness ==
    /\ DOMAIN request # {}
    /\ request.userId = Some("bob")
    /\ request.authToken = None
    /\ request.projectId = Some("p1")
    /\ getCredentials(kv, "bob") =
           [threw |-> FALSE, authToken |-> Some("t2"), cookie |-> Some("c1"),
            projectId |-> Some("p1"), reveVersion |-> Some("r1")]
    /\ getCredentials(kv, "casey") =
           [threw |-> FALSE, authToken |-> Some("t1"), cookie |-> Some("c1"),
            projectId |-> None, reveVersion |-> None]
====
